---- MODULE Spec2Model ----
(***************************************************************************)
(* ContextVault: the append-only store (src/src/vault.js, schema.sql) and  *)
(* the transcript synchronizer (src/src/watcher.js).                       *)
(*                                                                         *)
(* Spec       one synchronizer process, every handler runs to completion   *)
(*            (synchronous, single-threaded JavaScript).                   *)
(* SpecSteps  two synchronizer processes on one store file, one SQL        *)
(*            statement per step (every statement is its own autocommit    *)
(*            transaction: the code opens no transaction), with process    *)
(*            termination between statements.                              *)
(* SpecDrop   Spec started from synchronized transcripts that are long     *)
(*            enough for the 5-message slack of the compaction check.      *)
(***************************************************************************)
EXTENDS Integers, Sequences, FiniteSets, TLC

VARIABLES
    files,      \* file -> sequence of line records (the host's transcript files)
    written,    \* file -> number of message lines the host ever wrote to it
    truncations, \* file -> number of times the host compacted it
    db,         \* the store file: sessions, messages, messages_fts, snapshots, compactions
    lastSync,   \* process -> (sessionId -> [messageCount]); SessionWatcher.lastSync
    pc,         \* process -> the statement a running syncSession has reached
    clock,      \* Date.now()
    last,       \* the most recent call or host event, with the call's locals and result
    unreadable, \* the transcript files fs.readFileSync fails on
    closed,     \* the store's handle has been closed: ContextVault.close()
    timer       \* process -> the interval timer of watch() is armed

vars == <<files, written, truncations, db, lastSync, pc, clock, last, unreadable, closed,
         timer>>

----------------------------------------------------------------------------
(* Bounds of the model *)

MaxLen == 2          \* message lines transcript f1 may hold when the host appends
MaxWritten == 3      \* message lines the host ever writes to f1
MaxOther == 1        \* message lines the host ever writes to f2
MaxTruncations == 1  \* compactions of one transcript by the host
MaxClock == 1        \* largest value of the clock
MaxApi == 3          \* direct calls of appendMessage, createSnapshot, recordCompaction
MaxUnreadable == 1   \* transcript files unreadable at the same time
MaxDropLen == 8      \* longest synchronized transcript SpecDrop starts from
MaxLines == 3        \* lines after the session record in a transcript of SpecParse

(* Program constants *)

CompactionSlack == 5

Files == {"f1", "f2"}
\* the order in which readdirSync lists the transcript files that may exist
FileOrder == <<"f1", "f2", "f3", "f4", "f5">>
Procs == {"p1", "p2"}
Roles == {"user", "assistant"}

RECURSIVE ToStr(_)
ToStr(n) ==
    LET d == <<"0", "1", "2", "3", "4", "5", "6", "7", "8", "9">>
    IN  IF n < 10 THEN d[n + 1] ELSE ToStr(n \div 10) \o d[(n % 10) + 1]

----------------------------------------------------------------------------
(* Transcript lines *)

NoContent == [kind |-> "none", str |-> "", frags |-> <<>>]
StringContent(s) == [kind |-> "string", str |-> s, frags |-> <<>>]
ArrayContent(fr) == [kind |-> "array", str |-> "", frags |-> fr]

SessionLine(id) ==
    [type |-> "session", id |-> id, role |-> "", content |-> NoContent, timestamp |-> 0]
MessageLine(role, content, ts) ==
    [type |-> "message", id |-> "", role |-> role, content |-> content, timestamp |-> ts]
BadLine ==
    [type |-> "bad", id |-> "", role |-> "", content |-> NoContent, timestamp |-> 0]

FileId(f) ==
    CASE f = "f1" -> "a"
      [] f = "f2" -> "b"
      [] f = "f3" -> "c"
      [] f = "f4" -> "d"
      [] OTHER -> "e"
Token(f, k) == "m" \o ToStr(k)
RoleOf(k) == IF k % 2 = 1 THEN "user" ELSE "assistant"
\* the host writes the content as an array of fragments or as a string
ContentOf(f, k) ==
    IF k % 2 = 1 THEN ArrayContent(<<[type |-> "text", text |-> Token(f, k)]>>)
    ELSE StringContent(Token(f, k))

----------------------------------------------------------------------------
(* TranscriptParser: SessionWatcher.parseSessionFile *)

SetMax(S) == CHOOSE x \in S : \A y \in S : y <= x

NoSession == [present |-> FALSE, sessionKey |-> "", id |-> ""]

RECURSIVE JoinLines(_)
JoinLines(ss) ==
    IF ss = <<>> THEN ""
    ELSE IF Len(ss) = 1 THEN ss[1]
    ELSE ss[1] \o "\n" \o JoinLines(Tail(ss))

IsTextFragment(c) == c.type = "text"

FragmentTexts(frags) == [i \in 1..Len(frags) |-> frags[i].text]

\* watcher.js:57-65
TextContent(content) ==
    IF content.kind = "array"
    THEN JoinLines(FragmentTexts(SelectSeq(content.frags, IsTextFragment)))
    ELSE IF content.kind = "string" THEN content.str
    ELSE ""

\* IsParsedMessage without the test of msg.role
IsParsedMessageAnyRole(line) ==
    /\ line.type = "message"
    /\ TextContent(line.content) # ""

\* watcher.js:67-73
IsParsedMessage(line) ==
    /\ line.type = "message"
    /\ TextContent(line.content) # ""
    /\ line.role \in {"user", "assistant"}

ParsedMessage(line) ==
    [role |-> line.role, content |-> TextContent(line.content), timestamp |-> line.timestamp]

\* watcher.js:41-51: the last session record of the file wins
ParseSession(lines) ==
    LET at == {i \in 1..Len(lines) : lines[i].type = "session"}
    IN  IF at = {} THEN NoSession
        ELSE [present |-> TRUE,
              sessionKey |-> "session:" \o lines[SetMax(at)].id,
              id |-> lines[SetMax(at)].id]

\* ParseMessages with the try/catch around the loop instead of inside it: the first
\* line JSON.parse rejects ends the loop
ParseMessagesStopAtBad(lines) ==
    LET bad == {i \in 1..Len(lines) : lines[i].type = "bad"}
        upto == IF bad = {} THEN Len(lines)
                ELSE (CHOOSE i \in bad : \A j \in bad : i <= j) - 1
        kept == SelectSeq(SubSeq(lines, 1, upto), IsParsedMessage)
    IN  [i \in 1..Len(kept) |-> ParsedMessage(kept[i])]

\* watcher.js:44-78: the lines JSON.parse rejects (type "bad") are skipped by the
\* catch inside the loop, the others are tested in line order
ParseMessages(lines) ==
    LET kept == SelectSeq(lines, IsParsedMessage)
    IN  [i \in 1..Len(kept) |-> ParsedMessage(kept[i])]

ParseSessionFile(lines) ==
    [session |-> ParseSession(lines), messages |-> ParseMessages(lines)]

----------------------------------------------------------------------------
(* Store: the SQL statements of ContextVault, each one atomic *)

EmptyDb ==
    [sessions |-> {}, messages |-> <<>>, fts |-> {}, snapshots |-> <<>>,
     compactions |-> <<>>]

NullMetadata == [kind |-> "null", timestamp |-> 0]
TimestampMetadata(ts) == [kind |-> "object", timestamp |-> ts]

EmptyObject == [kind |-> "empty", timestamp |-> 0]

\* JsonStringify that keeps no property of an object
JsonStringifyNoProperties(metadata) ==
    IF metadata.kind = "null" THEN "null" ELSE "{}"

\* JSON.stringify(metadata), vault.js:51
JsonStringify(metadata) ==
    IF metadata.kind = "null" THEN "null"
    ELSE "{\"timestamp\":" \o ToStr(metadata.timestamp) \o "}"

RECURSIVE ParseDigits(_)
ParseDigits(s) ==
    IF Len(s) = 0 THEN 0
    ELSE ParseDigits(SubSeq(s, 1, Len(s) - 1)) * 10
            + (CHOOSE n \in 0..9 : ToStr(n) = SubSeq(s, Len(s), Len(s)))

\* JSON.parse of a stored metadata text, vault.js:370
JsonParse(text) ==
    IF text = "null" THEN NullMetadata
    ELSE IF text = "{}" THEN EmptyObject
    ELSE TimestampMetadata(ParseDigits(SubSeq(text, Len("{\"timestamp\":") + 1,
                                              Len(text) - 1)))

SessionRows(d, sessionId) == {r \in d.sessions : r.id = sessionId}
SessionExists(d, sessionId) == SessionRows(d, sessionId) # {}
MessagesOf(d, sessionId) ==
    LET ofSession(m) == m.session_id = sessionId
    IN  SelectSeq(d.messages, ofSession)
MessageCount(d, sessionId) == Len(MessagesOf(d, sessionId))

\* INSERT INTO sessions, vault.js:32-35
InsertSession(d, sessionId, now) ==
    [d EXCEPT !.sessions = @ \cup
        {[id |-> sessionId, created_at |-> now, last_activity |-> now,
          total_messages |-> 0]}]

\* vault.js:29-37
EnsureSession(d, sessionId, now) ==
    IF SessionExists(d, sessionId) THEN d ELSE InsertSession(d, sessionId, now)

\* NewIndex without the WHERE session_id = ?
NewIndexAnySession(d, sessionId) ==
    IF d.messages = <<>> THEN 0
    ELSE SetMax({d.messages[i].message_index : i \in 1..Len(d.messages)}) + 1

\* SELECT MAX(message_index), (lastIndex?.idx ?? -1) + 1; vault.js:42-46
NewIndex(d, sessionId) ==
    LET rows == MessagesOf(d, sessionId)
    IN  IF rows = <<>> THEN 0
        ELSE SetMax({rows[i].message_index : i \in 1..Len(rows)}) + 1

\* InsertMessage on a schema without the trigger messages_ai
InsertMessageNoTrigger(d, sessionId, index, msg, now) ==
    [d EXCEPT !.messages = Append(@,
        [id |-> Len(d.messages) + 1, session_id |-> sessionId,
         message_index |-> index, role |-> msg.role, content |-> msg.content,
         timestamp |-> now, metadata |-> JsonStringify(msg.metadata)])]

\* INSERT INTO messages (vault.js:48-51) with trigger messages_ai (schema.sql:32-34)
InsertMessage(d, sessionId, index, msg, now) ==
    LET id == Len(d.messages) + 1
        row == [id |-> id, session_id |-> sessionId, message_index |-> index,
                role |-> msg.role, content |-> msg.content, timestamp |-> now,
                metadata |-> JsonStringify(msg.metadata)]
    IN  [d EXCEPT !.messages = Append(@, row),
                  !.fts = @ \cup {[rowid |-> id, content |-> msg.content]}]

\* UPDATE sessions SET last_activity, total_messages + 1; vault.js:54-57
\* UPDATE sessions without its WHERE clause: every session record is touched
UpdateSessionNoWhere(d, sessionId, now) ==
    [d EXCEPT !.sessions =
        {[r EXCEPT !.last_activity = now, !.total_messages = @ + 1] : r \in @}]

UpdateSession(d, sessionId, now) ==
    [d EXCEPT !.sessions =
        {IF r.id = sessionId
         THEN [r EXCEPT !.last_activity = now, !.total_messages = @ + 1]
         ELSE r : r \in @}]

\* AppendMessage that also brings the session's checkpoints up to date
AppendMessageRefreshingSnapshots(d, sessionId, msg, now) ==
    LET d1 == EnsureSession(d, sessionId, now)
        d2 == InsertMessage(d1, sessionId, NewIndex(d1, sessionId), msg, now)
        d3 == UpdateSession(d2, sessionId, now)
    IN  [d3 EXCEPT !.snapshots =
            [i \in 1..Len(@) |->
                IF @[i].session_id = sessionId
                THEN [@[i] EXCEPT !.message_count = MessageCount(d3, sessionId),
                                  !.last_message_id = Len(d3.messages)]
                ELSE @[i]]]

\* vault.js:39-58
AppendMessage(d, sessionId, msg, now) ==
    LET d1 == EnsureSession(d, sessionId, now)
        d2 == InsertMessage(d1, sessionId, NewIndex(d1, sessionId), msg, now)
    IN  UpdateSession(d2, sessionId, now)

\* GetSessionStats with the count read from sessions.total_messages
GetSessionStatsFromTotal(d, sessionId) ==
    [sessionId |-> sessionId,
     messageCount |-> IF SessionExists(d, sessionId)
                      THEN (CHOOSE r \in SessionRows(d, sessionId) : TRUE).total_messages
                      ELSE 0]

\* vault.js:126-138
GetSessionStats(d, sessionId) ==
    [sessionId |-> sessionId, messageCount |-> MessageCount(d, sessionId)]

\* RecordCompaction that also drops the stored messages of the compacted session
RecordCompactionPruning(d, sessionId, before, after, summaryAvailable, now) ==
    LET d1 == EnsureSession(d, sessionId, now)
    IN  [d1 EXCEPT !.messages = SelectSeq(@, LAMBDA m : m.session_id # sessionId),
                   !.compactions = Append(@,
            [id |-> Len(@) + 1, session_id |-> sessionId, timestamp |-> now,
             messages_before |-> before, messages_after |-> after,
             summary_available |-> IF summaryAvailable THEN 1 ELSE 0])]

\* vault.js:74-81
RecordCompaction(d, sessionId, before, after, summaryAvailable, now) ==
    LET d1 == EnsureSession(d, sessionId, now)
    IN  [d1 EXCEPT !.compactions = Append(@,
            [id |-> Len(@) + 1, session_id |-> sessionId, timestamp |-> now,
             messages_before |-> before, messages_after |-> after,
             summary_available |-> IF summaryAvailable THEN 1 ELSE 0])]

\* CreateSnapshot with SELECT id FROM messages ORDER BY id DESC LIMIT 1, without the
\* WHERE session_id = ?
CreateSnapshotAnySession(d, sessionId, name, trigger, now) ==
    LET d1 == EnsureSession(d, sessionId, now)
        rows == d1.messages
        lastId == IF rows = <<>> THEN 0
                  ELSE SetMax({rows[i].id : i \in 1..Len(rows)})
    IN  [d1 EXCEPT !.snapshots = Append(@,
            [id |-> Len(@) + 1, session_id |-> sessionId, name |-> name,
             trigger |-> trigger,
             message_count |-> GetSessionStats(d1, sessionId).messageCount,
             created_at |-> now, last_message_id |-> lastId])]

\* vault.js:60-72; last_message_id 0 stands for NULL (lastMsg?.id of no row)
CreateSnapshot(d, sessionId, name, trigger, now) ==
    LET d1 == EnsureSession(d, sessionId, now)
        rows == MessagesOf(d1, sessionId)
        lastId == IF rows = <<>> THEN 0
                  ELSE SetMax({rows[i].id : i \in 1..Len(rows)})
    IN  [d1 EXCEPT !.snapshots = Append(@,
            [id |-> Len(@) + 1, session_id |-> sessionId, name |-> name,
             trigger |-> trigger,
             message_count |-> GetSessionStats(d1, sessionId).messageCount,
             created_at |-> now, last_message_id |-> lastId])]

\* messages_fts MATCH ? for a query of one token: FTS5 matches the rows whose content
\* holds the token, and every content of the model is a single token
Matches(content, query) == content = query

NoFilter == ""

\* Search without the AND m.session_id = ?
SearchNoFilter(d, query, sessionId, limit) ==
    LET hits == {i \in 1..Len(d.messages) :
                    \E e \in d.fts : e.rowid = d.messages[i].id
                                      /\ Matches(e.content, query)}
    IN  IF Cardinality(hits) <= limit THEN {d.messages[i] : i \in hits}
        ELSE {d.messages[i] :
                 i \in CHOOSE S \in SUBSET hits : Cardinality(S) = limit}

\* vault.js:94-112, without the ranking: the matching rows, all of them when they
\* are at most limit
Search(d, query, sessionId, limit) ==
    LET hits == {i \in 1..Len(d.messages) :
                    /\ \E e \in d.fts : e.rowid = d.messages[i].id
                                        /\ Matches(e.content, query)
                    /\ sessionId # NoFilter => d.messages[i].session_id = sessionId}
    IN  IF Cardinality(hits) <= limit THEN {d.messages[i] : i \in hits}
        ELSE {d.messages[i] :
                 i \in CHOOSE S \in SUBSET hits : Cardinality(S) = limit}

\* ORDER BY timestamp DESC served by the backward scan of
\* idx_messages_session(session_id, timestamp): equal timestamps come in
\* descending rowid
OrderByTimestampDesc(rows) ==
    LET Before(a, b) ==
            \/ a.timestamp > b.timestamp
            \/ a.timestamp = b.timestamp /\ a.id > b.id
        rank(i) == Cardinality({j \in 1..Len(rows) : Before(rows[j], rows[i])})
    IN  [k \in 1..Len(rows) |-> rows[CHOOSE i \in 1..Len(rows) : rank(i) = k - 1]]

Min(a, b) == IF a < b THEN a ELSE b

\* LIMIT ? OFFSET ?
LimitOffset(rows, limit, offset) ==
    SubSeq(rows, offset + 1, Min(offset + limit, Len(rows)))

\* GetMessages without the WHERE session_id = ?
GetMessagesAnySession(d, sessionId, limit, offset) ==
    LimitOffset(OrderByTimestampDesc(d.messages), limit, offset)

\* vault.js:85-92. ORDER BY timestamp DESC is served by a backward scan of
\* idx_messages_session (session_id, timestamp), schema.sql:58: rows of equal
\* timestamp come in descending rowid
GetMessages(d, sessionId, limit, offset) ==
    LimitOffset(OrderByTimestampDesc(MessagesOf(d, sessionId)), limit, offset)

\* the rows getSnapshots selects, vault.js:114-118
SnapshotsOf(d, sessionId) ==
    SelectSeq(d.snapshots, LAMBDA s : s.session_id = sessionId)

\* the rows getCompactions selects, vault.js:120-124
CompactionsOf(d, sessionId) ==
    SelectSeq(d.compactions, LAMBDA c : c.session_id = sessionId)

\* vault.js:140-147
GetStats(d) ==
    [sessions |-> Cardinality(d.sessions), messages |-> Len(d.messages),
     snapshots |-> Len(d.snapshots), compactions |-> Len(d.compactions)]

----------------------------------------------------------------------------
(* RecoveryComposer: ContextVault.generateRecoveryFile *)

Reverse(s) == [i \in 1..Len(s) |-> s[Len(s) + 1 - i]]

\* msg.role.toUpperCase()
ToUpperCase(role) ==
    CASE role = "user" -> "USER"
      [] role = "assistant" -> "ASSISTANT"
      [] role = "system" -> "SYSTEM"
      [] OTHER -> role

\* msg.content?.slice(0, 2000) || '(no content)'; the contents of the model are
\* shorter than 2000 characters
RenderContent(content) == IF content = "" THEN "(no content)" ELSE content

\* SELECT * FROM compactions ... ORDER BY timestamp DESC LIMIT 1 (vault.js:153-155):
\* the rows it may return; among rows of equal timestamp SQL leaves the choice open
LastCompactionChoices(d, sessionId) ==
    LET rows == CompactionsOf(d, sessionId)
    IN  {rows[i] : i \in {j \in 1..Len(rows) :
                              \A k \in 1..Len(rows) :
                                  rows[k].timestamp <= rows[j].timestamp}}

NoDocument == [session |-> "", count |-> 0, compaction |-> <<>>, entries |-> <<>>]

\* vault.js:151-184: the document, as its parts. lastCompaction is <<>> or <<row>>
GenerateRecoveryFile(d, sessionId, messageCount, lastCompaction) ==
    LET messages == GetMessages(d, sessionId, messageCount, 0)
        shown == Reverse(messages)
    IN  [session |-> sessionId,
         count |-> Len(messages),
         compaction |-> [i \in 1..Len(lastCompaction) |->
                            [time |-> lastCompaction[i].timestamp,
                             before |-> lastCompaction[i].messages_before,
                             summary |-> IF lastCompaction[i].summary_available # 0
                                         THEN "yes" ELSE "no"]],
         entries |-> [i \in 1..Len(shown) |->
                         [time |-> shown[i].timestamp,
                          role |-> ToUpperCase(shown[i].role),
                          content |-> RenderContent(shown[i].content)]]]

----------------------------------------------------------------------------
(* Synchronizer: SessionWatcher.syncSession / syncAll, run to completion *)

EmptyCursor == [s \in {} |-> [messageCount |-> 0]]

\* this.lastSync[sessionId] || { messageCount: 0 }; watcher.js:88
LastInfo(cursor, sessionId) ==
    IF sessionId \in DOMAIN cursor THEN cursor[sessionId] ELSE [messageCount |-> 0]

\* DetectsCompaction with the slack off by one
DetectsCompactionInclusive(priorCount, parsedCount) ==
    priorCount > 0 /\ parsedCount <= priorCount - CompactionSlack

\* watcher.js:91
DetectsCompaction(priorCount, parsedCount) ==
    priorCount > 0 /\ parsedCount < priorCount - CompactionSlack

\* SetCursor that never lowers the remembered count
SetCursorKeepingMax(cursor, sessionId, count) ==
    [s \in DOMAIN cursor \cup {sessionId} |->
        IF s = sessionId
        THEN [messageCount |-> IF LastInfo(cursor, sessionId).messageCount > count
                               THEN LastInfo(cursor, sessionId).messageCount
                               ELSE count]
        ELSE cursor[s]]

\* watcher.js:130-133 (the timestamp of the entry is never read and is left out)
SetCursor(cursor, sessionId, count) ==
    [s \in DOMAIN cursor \cup {sessionId} |->
        IF s = sessionId THEN [messageCount |-> count] ELSE cursor[s]]

\* the argument syncSession passes to appendMessage; watcher.js:119-123
SyncedMessage(msg) ==
    [role |-> msg.role, content |-> msg.content,
     metadata |-> TimestampMetadata(msg.timestamp)]

NoCall ==
    [op |-> "none", proc |-> "", file |-> "", sessionId |-> "", threw |-> FALSE,
     synced |-> 0, total |-> 0, priorCount |-> 0, existingCount |-> 0,
     compaction |-> FALSE, sessionsUpdated |-> 0, filesScanned |-> 0,
     requested |-> 0, document |-> NoDocument, rows |-> <<>>, name |-> "",
     trigger |-> "", query |-> "", limit |-> 0, found |-> {}]

\* the loop of watcher.js:104-127: the store and the count after the iterations
\* for positions from..to-1 (0-based); [db, synced]
RECURSIVE AppendLoop(_, _, _, _, _, _)
AppendLoop(d, sessionId, messages, from, to, now) ==
    IF to <= from THEN [db |-> d, synced |-> 0]
    ELSE LET before == AppendLoop(d, sessionId, messages, from, to - 1, now)
         IN  IF messages[to].content # ""
             THEN [db |-> AppendMessage(before.db, sessionId,
                                        SyncedMessage(messages[to]), now),
                   synced |-> before.synced + 1]
             ELSE before

\* SyncStart with the delta taken from the cursor instead of the store's count
SyncStartFromCursor(d, cursor, sessionId, messages, now) ==
    LET priorCount == LastInfo(cursor, sessionId).messageCount
        compaction == DetectsCompaction(priorCount, Len(messages))
        d1 == IF compaction
              THEN RecordCompaction(d, sessionId, priorCount, Len(messages), TRUE, now)
              ELSE d
    IN  [db |-> d1, priorCount |-> priorCount, compaction |-> compaction,
         existingCount |-> priorCount]

\* SyncStart with no delta: every parsed message is appended again
SyncStartNoDelta(d, cursor, sessionId, messages, now) ==
    LET priorCount == LastInfo(cursor, sessionId).messageCount
        compaction == DetectsCompaction(priorCount, Len(messages))
        d1 == IF compaction
              THEN RecordCompaction(d, sessionId, priorCount, Len(messages), TRUE, now)
              ELSE d
    IN  [db |-> d1, priorCount |-> priorCount, compaction |-> compaction,
         existingCount |-> 0]

\* watcher.js:87-101: the compaction check and the delta's start; [db, priorCount,
\* existingCount, compaction]
SyncStart(d, cursor, sessionId, messages, now) ==
    LET priorCount == LastInfo(cursor, sessionId).messageCount
        compaction == DetectsCompaction(priorCount, Len(messages))
        d1 == IF compaction
              THEN RecordCompaction(d, sessionId, priorCount, Len(messages), TRUE, now)
              ELSE d
    IN  [db |-> d1, priorCount |-> priorCount, compaction |-> compaction,
         existingCount |-> GetSessionStats(d1, sessionId).messageCount]

\* SyncSessionCall without the return of watcher.js:85: a transcript without
\* session record is synchronized under the key of an undefined id
SyncSessionCallWithoutGuard(d, cursor, proc, file, lines, now) ==
    LET parsed == ParseSessionFile(lines)
        sessionId == IF parsed.session.present THEN parsed.session.sessionKey
                     ELSE "session:undefined"
        start == SyncStart(d, cursor, sessionId, parsed.messages, now)
        done == AppendLoop(start.db, sessionId, parsed.messages, start.existingCount,
                           Len(parsed.messages), now)
    IN  [db |-> done.db,
         cursor |-> SetCursor(cursor, sessionId, Len(parsed.messages)),
         ret |-> [NoCall EXCEPT !.op = "syncSession", !.proc = proc,
                     !.file = file, !.sessionId = sessionId,
                     !.synced = done.synced, !.total = Len(parsed.messages),
                     !.priorCount = start.priorCount,
                     !.existingCount = start.existingCount,
                     !.compaction = start.compaction]]

\* watcher.js:83-136; [db, cursor, ret]
SyncSessionCall(d, cursor, proc, file, lines, now) ==
    LET parsed == ParseSessionFile(lines)
        sessionId == parsed.session.sessionKey
        start == SyncStart(d, cursor, sessionId, parsed.messages, now)
        done == AppendLoop(start.db, sessionId, parsed.messages, start.existingCount,
                           Len(parsed.messages), now)
    IN  IF ~parsed.session.present
        THEN [db |-> d, cursor |-> cursor,
              ret |-> [NoCall EXCEPT !.op = "syncSession", !.proc = proc,
                                     !.file = file]]
        ELSE [db |-> done.db,
              cursor |-> SetCursor(cursor, sessionId, Len(parsed.messages)),
              ret |-> [NoCall EXCEPT !.op = "syncSession", !.proc = proc,
                          !.file = file, !.sessionId = sessionId,
                          !.synced = done.synced, !.total = Len(parsed.messages),
                          !.priorCount = start.priorCount,
                          !.existingCount = start.existingCount,
                          !.compaction = start.compaction]]

\* watcher.js:14-35: the transcript files that exist
GetSessionFiles == SelectSeq(FileOrder, LAMBDA f : f \in DOMAIN files)

\* syncSession(file) fails: fs.readFileSync throws on a file in unread
\* (watcher.js:38), db.prepare throws on a closed store (watcher.js:92, 101)
SyncSessionThrows(unread, file) ==
    \/ file \in unread
    \/ closed /\ ParseSessionFile(files[file]).session.present

\* syncSession(file) as its caller sees it; [db, cursor, ret]
TrySyncSession(unread, d, cursor, proc, file, now) ==
    IF SyncSessionThrows(unread, file)
    THEN [db |-> d, cursor |-> cursor,
          ret |-> [NoCall EXCEPT !.op = "syncSession", !.proc = proc, !.file = file,
                                 !.threw = TRUE]]
    ELSE SyncSessionCall(d, cursor, proc, file, files[file], now)

\* watcher.js:138-157 over the files of getSessionFiles from position k (1-based),
\* with readFileSync failing on the files in unread
RECURSIVE SyncAllOver(_, _, _, _, _, _, _, _)
SyncAllOver(unread, d, cursor, proc, k, totalSynced, sessionsUpdated, now) ==
    IF k > Len(GetSessionFiles)
    THEN [db |-> d, cursor |-> cursor,
          ret |-> [NoCall EXCEPT !.op = "syncAll", !.proc = proc,
                      !.synced = totalSynced, !.sessionsUpdated = sessionsUpdated,
                      !.filesScanned = Len(GetSessionFiles)]]
    ELSE LET r == TrySyncSession(unread, d, cursor, proc, GetSessionFiles[k], now)
         IN  IF r.ret.threw
             THEN SyncAllOver(unread, d, cursor, proc, k + 1, totalSynced,
                              sessionsUpdated, now)
             ELSE SyncAllOver(unread, r.db, r.cursor, proc, k + 1,
                              IF r.ret.synced > 0 THEN totalSynced + r.ret.synced
                              ELSE totalSynced,
                              IF r.ret.synced > 0 THEN sessionsUpdated + 1
                              ELSE sessionsUpdated,
                              now)

\* SyncAllLoop without the try/catch around syncSession: the first failure ends it
RECURSIVE SyncAllLoopNoCatch(_, _, _, _, _, _, _)
SyncAllLoopNoCatch(d, cursor, proc, k, totalSynced, sessionsUpdated, now) ==
    IF k > Len(GetSessionFiles)
    THEN [db |-> d, cursor |-> cursor,
          ret |-> [NoCall EXCEPT !.op = "syncAll", !.proc = proc,
                      !.synced = totalSynced, !.sessionsUpdated = sessionsUpdated,
                      !.filesScanned = Len(GetSessionFiles)]]
    ELSE LET r == TrySyncSession(unreadable, d, cursor, proc, GetSessionFiles[k], now)
         IN  IF r.ret.threw
             THEN [db |-> d, cursor |-> cursor,
                   ret |-> [NoCall EXCEPT !.op = "syncAll", !.proc = proc,
                                          !.threw = TRUE]]
             ELSE SyncAllLoopNoCatch(r.db, r.cursor, proc, k + 1,
                              IF r.ret.synced > 0 THEN totalSynced + r.ret.synced
                              ELSE totalSynced,
                              IF r.ret.synced > 0 THEN sessionsUpdated + 1
                              ELSE sessionsUpdated,
                              now)

\* no append fails
NoFault == [file |-> "", after |-> 0]

\* syncSession(file) in which the append after the first fault.after appends of the
\* delta throws (disk full, I/O error, database locked): what was appended stays,
\* line watcher.js:129 is not reached; [db, cursor, ret]
TrySyncSessionFaulty(fault, unread, d, cursor, proc, file, now) ==
    LET parsed == ParseSessionFile(files[file])
        sessionId == parsed.session.sessionKey
        start == SyncStart(d, cursor, sessionId, parsed.messages, now)
        part == AppendLoop(start.db, sessionId, parsed.messages, start.existingCount,
                           start.existingCount + fault.after, now)
    IN  IF /\ file = fault.file
           /\ ~SyncSessionThrows(unread, file)
           /\ parsed.session.present
           /\ start.existingCount + fault.after < Len(parsed.messages)
        THEN [db |-> part.db, cursor |-> cursor,
              ret |-> [NoCall EXCEPT !.op = "syncSession", !.proc = proc,
                                     !.file = file, !.sessionId = sessionId,
                                     !.threw = TRUE]]
        ELSE TrySyncSession(unread, d, cursor, proc, file, now)

\* SyncAllFaulty with synced counted inside syncSession's loop and added also when
\* the call fails
RECURSIVE SyncAllFaultyCountingAppends(_, _, _, _, _, _, _, _, _)
SyncAllFaultyCountingAppends(fault, unread, d, cursor, proc, k, totalSynced, sessionsUpdated, now) ==
    IF k > Len(GetSessionFiles)
    THEN [db |-> d, cursor |-> cursor,
          ret |-> [NoCall EXCEPT !.op = "syncAll", !.proc = proc,
                      !.synced = totalSynced, !.sessionsUpdated = sessionsUpdated,
                      !.filesScanned = Len(GetSessionFiles)]]
    ELSE LET r == TrySyncSessionFaulty(fault, unread, d, cursor, proc,
                                       GetSessionFiles[k], now)
             n == Len(r.db.messages) - Len(d.messages)
         IN  SyncAllFaultyCountingAppends(fault, unread, r.db, r.cursor, proc, k + 1,
                 totalSynced + n,
                 IF n > 0 THEN sessionsUpdated + 1 ELSE sessionsUpdated, now)

\* watcher.js:138-157 with the fault in one of the syncSession calls: the catch of
\* watcher.js:151 drops the failing call's result
RECURSIVE SyncAllFaulty(_, _, _, _, _, _, _, _, _)
SyncAllFaulty(fault, unread, d, cursor, proc, k, totalSynced, sessionsUpdated, now) ==
    IF k > Len(GetSessionFiles)
    THEN [db |-> d, cursor |-> cursor,
          ret |-> [NoCall EXCEPT !.op = "syncAll", !.proc = proc,
                      !.synced = totalSynced, !.sessionsUpdated = sessionsUpdated,
                      !.filesScanned = Len(GetSessionFiles)]]
    ELSE LET r == TrySyncSessionFaulty(fault, unread, d, cursor, proc,
                                       GetSessionFiles[k], now)
         IN  IF r.ret.threw
             THEN SyncAllFaulty(fault, unread, r.db, r.cursor, proc, k + 1,
                                totalSynced, sessionsUpdated, now)
             ELSE SyncAllFaulty(fault, unread, r.db, r.cursor, proc, k + 1,
                                IF r.ret.synced > 0 THEN totalSynced + r.ret.synced
                                ELSE totalSynced,
                                IF r.ret.synced > 0 THEN sessionsUpdated + 1
                                ELSE sessionsUpdated, now)

\* watcher.js:138-157 on the files as they are
SyncAllLoop(d, cursor, proc, k, totalSynced, sessionsUpdated, now) ==
    SyncAllOver(unreadable, d, cursor, proc, k, totalSynced, sessionsUpdated, now)

----------------------------------------------------------------------------
(* Actions *)

Idle ==
    [at |-> "idle", file |-> "", sessionId |-> "", messages |-> <<>>, i |-> 0,
     synced |-> 0, newIndex |-> 0, priorCount |-> 0, existingCount |-> 0,
     compaction |-> FALSE]

MessageLines(f) == SelectSeq(files[f], LAMBDA l : l.type = "message")
HeaderLines(f) == SelectSeq(files[f], LAMBDA l : l.type # "message")

\* the host writes one more message line to a transcript
HostAppend(f) ==
    /\ Len(MessageLines(f)) < MaxLen
    /\ written[f] < (IF f = "f1" THEN MaxWritten ELSE MaxOther)
    /\ written' = [written EXCEPT ![f] = @ + 1]
    /\ files' = [files EXCEPT ![f] =
           Append(@, MessageLine(RoleOf(written[f] + 1),
                                 ContentOf(f, written[f] + 1),
                                 written[f] + 1))]
    /\ last' = [NoCall EXCEPT !.op = "hostAppend", !.file = f]
    /\ UNCHANGED <<truncations, db, lastSync, pc, clock, unreadable, closed, timer>>

\* lines a transcript can hold besides the user and assistant messages with text
TextFragment(s) == [type |-> "text", text |-> s]
ToolUseFragment == [type |-> "tool_use", text |-> ""]
UserString == MessageLine("user", StringContent("hello"), 1)
AssistantFragments ==
    MessageLine("assistant",
                ArrayContent(<<TextFragment("a"), ToolUseFragment, TextFragment("b")>>), 2)
SystemString == MessageLine("system", StringContent("sys"), 3)
UserEmptyString == MessageLine("user", StringContent(""), 4)
AssistantToolUseOnly == MessageLine("assistant", ArrayContent(<<ToolUseFragment>>), 5)
\* a record of type message without the message object
MessageWithoutBody == MessageLine("", NoContent, 6)
\* a record of another type (model_change, custom, ...)
OtherRecord ==
    [type |-> "custom", id |-> "", role |-> "user", content |-> StringContent("c"),
     timestamp |-> 7]

SampleLines ==
    {UserString, AssistantFragments, SystemString, UserEmptyString,
     AssistantToolUseOnly, MessageWithoutBody, OtherRecord, BadLine}

\* the host writes one more line, of any kind, to a transcript
HostWrite(f, line) ==
    /\ Len(files[f]) <= MaxLines
    /\ files' = [files EXCEPT ![f] = Append(@, line)]
    /\ last' = [NoCall EXCEPT !.op = "hostAppend", !.file = f]
    /\ UNCHANGED <<written, truncations, db, lastSync, pc, clock, unreadable, closed,
                   timer>>

\* the host compacts a transcript: only its newest keep message lines remain
HostTruncate(f) ==
    /\ truncations[f] < MaxTruncations
    /\ \E keep \in 0..(Len(MessageLines(f)) - 1) :
           files' = [files EXCEPT ![f] =
               HeaderLines(f) \o
               SubSeq(MessageLines(f), Len(MessageLines(f)) - keep + 1,
                      Len(MessageLines(f)))]
    /\ truncations' = [truncations EXCEPT ![f] = @ + 1]
    /\ last' = [NoCall EXCEPT !.op = "hostTruncate", !.file = f]
    /\ UNCHANGED <<written, db, lastSync, pc, clock, unreadable, closed, timer>>

\* the host makes a transcript unreadable to the synchronizer, or readable again
HostChmod(f) ==
    /\ f \in DOMAIN files
    /\ f \in unreadable \/ Cardinality(unreadable) < MaxUnreadable
    /\ unreadable' = IF f \in unreadable THEN unreadable \ {f} ELSE unreadable \cup {f}
    /\ last' = [NoCall EXCEPT !.op = "hostChmod", !.file = f]
    /\ UNCHANGED <<files, written, truncations, db, lastSync, pc, clock, closed, timer>>

Tick ==
    /\ clock < MaxClock
    /\ clock' = clock + 1
    /\ UNCHANGED <<files, written, truncations, db, lastSync, pc, last, unreadable, closed, timer>>

\* watcher.syncSession(file) in process p
SyncSession(p, f) ==
    /\ pc[p].at = "idle"
    /\ LET r == TrySyncSession(unreadable, db, lastSync[p], p, f, clock)
       IN  /\ db' = r.db
           /\ lastSync' = [lastSync EXCEPT ![p] = r.cursor]
           /\ last' = r.ret
    /\ UNCHANGED <<files, written, truncations, pc, clock, unreadable, closed, timer>>

\* watcher.syncAll() in process p
SyncAll(p) ==
    /\ pc[p].at = "idle"
    /\ LET r == SyncAllLoop(db, lastSync[p], p, 1, 0, 0, clock)
       IN  /\ db' = r.db
           /\ lastSync' = [lastSync EXCEPT ![p] = r.cursor]
           /\ last' = r.ret
    /\ UNCHANGED <<files, written, truncations, pc, clock, unreadable, closed, timer>>

\* watcher.watch(intervalMs) in process p: the initial syncAll, then setInterval
\* (watcher.js:159-174). An exception that leaves syncAll would end the process
\* before the timer is set
Watch(p) ==
    /\ pc[p].at = "idle"
    /\ ~timer[p]
    /\ LET r == SyncAllLoop(db, lastSync[p], p, 1, 0, 0, clock)
       IN  /\ db' = r.db
           /\ lastSync' = [lastSync EXCEPT ![p] = r.cursor]
           /\ last' = r.ret
           /\ timer' = [timer EXCEPT ![p] = ~r.ret.threw]
    /\ UNCHANGED <<files, written, truncations, pc, clock, unreadable, closed>>

\* the interval timer of process p fires: the callback of watcher.js:168-173. An
\* exception that leaves the callback is uncaught and ends the process
IntervalTick(p) ==
    /\ pc[p].at = "idle"
    /\ timer[p]
    /\ LET r == SyncAllLoop(db, lastSync[p], p, 1, 0, 0, clock)
       IN  /\ db' = r.db
           /\ lastSync' = [lastSync EXCEPT ![p] = r.cursor]
           /\ last' = r.ret
           /\ timer' = [timer EXCEPT ![p] = ~r.ret.threw]
    /\ UNCHANGED <<files, written, truncations, pc, clock, unreadable, closed>>

\* the synchronizer process ends and a new one starts: new SessionWatcher()
Restart(p) ==
    /\ pc[p].at = "idle"
    /\ lastSync[p] # EmptyCursor
    /\ lastSync' = [lastSync EXCEPT ![p] = EmptyCursor]
    /\ last' = [NoCall EXCEPT !.op = "restart", !.proc = p]
    /\ timer' = [timer EXCEPT ![p] = FALSE]
    /\ UNCHANGED <<files, written, truncations, db, pc, clock, unreadable, closed>>

ApiSessions == {"session:a", "api:x"}

\* vault.appendMessage(sessionId, {role, content}) called directly
ApiRows == SelectSeq(db.messages, LAMBDA m : m.metadata = "null")

\* the events recordCompaction stored on a direct call (syncSession's events have
\* summary_available set)
ApiEvents == SelectSeq(db.compactions, LAMBDA e : e.summary_available = 0)

ApiCalls == Len(ApiRows) + Len(db.snapshots) + Len(ApiEvents)

\* db.prepare never failing on a closed connection
PrepareNeverThrows(isClosed) == FALSE

\* this.db.prepare(...) on a connection that db.close() has closed throws
\* (better-sqlite3: "The database connection is not open")
PrepareThrows(isClosed) == isClosed

\* the call ended by an exception
Threw(op, sessionId) ==
    [NoCall EXCEPT !.op = op, !.sessionId = sessionId, !.threw = TRUE]

ApiAppend(sessionId, role) ==
    /\ ApiCalls < MaxApi
    /\ IF PrepareThrows(closed)
       THEN /\ last' = Threw("appendMessage", sessionId)
            /\ UNCHANGED db
       ELSE /\ db' = AppendMessage(db, sessionId,
                        [role |-> role, content |-> "x" \o ToStr(Len(ApiRows) + 1),
                         metadata |-> NullMetadata], clock)
            /\ last' = [NoCall EXCEPT !.op = "appendMessage", !.sessionId = sessionId]
    /\ UNCHANGED <<files, written, truncations, lastSync, pc, clock, unreadable, closed, timer>>

\* vault.createSnapshot(sessionId, name, trigger) called directly
ApiSnapshot(sessionId, name, trigger) ==
    /\ ApiCalls < MaxApi
    /\ IF PrepareThrows(closed)
       THEN /\ last' = Threw("createSnapshot", sessionId)
            /\ UNCHANGED db
       ELSE /\ db' = CreateSnapshot(db, sessionId, name, trigger, clock)
            /\ last' = [NoCall EXCEPT !.op = "createSnapshot", !.sessionId = sessionId,
                                      !.name = name, !.trigger = trigger]
    /\ UNCHANGED <<files, written, truncations, lastSync, pc, clock, unreadable, closed, timer>>

\* vault.recordCompaction(sessionId, {...}) called directly
ApiCompaction(sessionId) ==
    /\ ApiCalls < MaxApi
    /\ IF PrepareThrows(closed)
       THEN /\ last' = Threw("recordCompaction", sessionId)
            /\ UNCHANGED db
       ELSE /\ db' = RecordCompaction(db, sessionId, 100, 20, FALSE, clock)
            /\ last' = [NoCall EXCEPT !.op = "recordCompaction", !.sessionId = sessionId]
    /\ UNCHANGED <<files, written, truncations, lastSync, pc, clock, unreadable, closed, timer>>

\* the wall clock is set back (Date.now() is the system time, not a monotonic clock)
ClockSetBack ==
    /\ clock > 0
    /\ clock' = clock - 1
    /\ UNCHANGED <<files, written, truncations, db, lastSync, pc, last, unreadable, closed,
                   timer>>

\* vault.generateRecoveryFile(sessionId, {messageCount}) called directly
Compose(sessionId, messageCount) ==
    /\ IF PrepareThrows(closed)
       THEN last' = Threw("generateRecoveryFile", sessionId)
       ELSE \E lastCompaction \in
              IF LastCompactionChoices(db, sessionId) = {} THEN {<<>>}
              ELSE {<<c>> : c \in LastCompactionChoices(db, sessionId)} :
           last' = [NoCall EXCEPT !.op = "generateRecoveryFile",
                       !.sessionId = sessionId, !.requested = messageCount,
                       !.document = GenerateRecoveryFile(db, sessionId, messageCount,
                                                         lastCompaction)]
    /\ UNCHANGED <<files, written, truncations, db, lastSync, pc, clock, unreadable,
                   closed, timer>>

\* the read operations of the store, with default arguments
ReadOps ==
    {"getMessages", "search", "getSnapshots", "getCompactions", "getStats",
     "getSessionStats"}

\* what a read operation returns: its rows, or its counts as one row; search
\* (here for the token x1) returns its hits in rank order, of which the number is kept
QueryResult(op, sessionId) ==
    CASE op = "getMessages" ->
             [NoCall EXCEPT !.rows = GetMessages(db, sessionId, 50, 0)]
      [] op = "getSnapshots" -> [NoCall EXCEPT !.rows = SnapshotsOf(db, sessionId)]
      [] op = "getCompactions" -> [NoCall EXCEPT !.rows = CompactionsOf(db, sessionId)]
      [] op = "getStats" -> [NoCall EXCEPT !.rows = <<GetStats(db)>>]
      [] op = "getSessionStats" ->
             [NoCall EXCEPT !.rows = <<GetSessionStats(db, sessionId)>>]
      [] OTHER -> [NoCall EXCEPT !.total = Cardinality(Search(db, "x1", NoFilter, 20))]

\* Query with the this.ensureSession(sessionId) the write operations start with
QueryEnsuringSession(op, sessionId) ==
    /\ last' = IF PrepareThrows(closed) THEN Threw(op, sessionId)
               ELSE [QueryResult(op, sessionId) EXCEPT !.op = op,
                                                       !.sessionId = sessionId]
    /\ db' = IF PrepareThrows(closed) THEN db ELSE EnsureSession(db, sessionId, clock)
    /\ UNCHANGED <<files, written, truncations, lastSync, pc, clock, unreadable,
                   closed, timer>>

\* a read operation of the store called directly
Query(op, sessionId) ==
    /\ last' = IF PrepareThrows(closed) THEN Threw(op, sessionId)
               ELSE [QueryResult(op, sessionId) EXCEPT !.op = op,
                                                       !.sessionId = sessionId]
    /\ UNCHANGED <<files, written, truncations, db, lastSync, pc, clock, unreadable,
                   closed, timer>>

\* the words of message contents and of search queries
Words == {"alpha", "beta"}

\* vault.appendMessage(sessionId, {role: 'user', content}) with a given content
ApiSay(sessionId, content) ==
    /\ ApiCalls < MaxApi
    /\ IF PrepareThrows(closed)
       THEN /\ last' = Threw("appendMessage", sessionId)
            /\ UNCHANGED db
       ELSE /\ db' = AppendMessage(db, sessionId,
                        [role |-> "user", content |-> content,
                         metadata |-> NullMetadata], clock)
            /\ last' = [NoCall EXCEPT !.op = "appendMessage", !.sessionId = sessionId]
    /\ UNCHANGED <<files, written, truncations, lastSync, pc, clock, unreadable, closed,
                   timer>>

\* vault.search(query, {sessionId, limit}); sessionId NoFilter is the default null
SearchCall(query, sessionId, limit) ==
    /\ last' = IF PrepareThrows(closed) THEN Threw("search", sessionId)
               ELSE [NoCall EXCEPT !.op = "search", !.sessionId = sessionId,
                                   !.query = query, !.limit = limit,
                                   !.found = Search(db, query, sessionId, limit)]
    /\ UNCHANGED <<files, written, truncations, db, lastSync, pc, clock, unreadable,
                   closed, timer>>

\* vault.close()
Close ==
    /\ ~closed
    /\ closed' = TRUE
    /\ last' = [NoCall EXCEPT !.op = "close"]
    /\ UNCHANGED <<files, written, truncations, db, lastSync, pc, clock, unreadable,
                   timer>>

----------------------------------------------------------------------------
(* syncSession one SQL statement at a time *)

Running(p, at, rec) == [pc EXCEPT ![p] = [rec EXCEPT !.at = at]]

SyncReturn(rec, p) ==
    [NoCall EXCEPT !.op = "syncSession", !.proc = p, !.file = rec.file,
        !.sessionId = rec.sessionId, !.synced = rec.synced,
        !.total = Len(rec.messages), !.priorCount = rec.priorCount,
        !.existingCount = rec.existingCount, !.compaction = rec.compaction]

\* the loop test of watcher.js:104 and, past the loop, watcher.js:129-135
Continue(p, rec) ==
    IF rec.i < Len(rec.messages)
    THEN /\ pc' = Running(p, "ensure", rec)
         /\ UNCHANGED <<lastSync, last>>
    ELSE /\ pc' = [pc EXCEPT ![p] = Idle]
         /\ lastSync' = [lastSync EXCEPT ![p] =
                SetCursor(@, rec.sessionId, Len(rec.messages))]
         /\ last' = SyncReturn(rec, p)

\* watcher.js:83-101
SyncBegin(p, f) ==
    /\ pc[p].at = "idle"
    /\ LET parsed == ParseSessionFile(files[f])
           sessionId == parsed.session.sessionKey
           start == SyncStart(db, lastSync[p], sessionId, parsed.messages, clock)
       IN  IF SyncSessionThrows(unreadable, f)
           THEN /\ last' = [NoCall EXCEPT !.op = "syncSession", !.proc = p,
                                          !.file = f, !.threw = TRUE]
                /\ UNCHANGED <<db, lastSync, pc>>
           ELSE IF ~parsed.session.present
           THEN /\ last' = [NoCall EXCEPT !.op = "syncSession", !.proc = p,
                                          !.file = f]
                /\ UNCHANGED <<db, lastSync, pc>>
           ELSE /\ db' = start.db
                /\ Continue(p, [Idle EXCEPT !.file = f, !.sessionId = sessionId,
                                   !.messages = parsed.messages,
                                   !.i = start.existingCount,
                                   !.priorCount = start.priorCount,
                                   !.existingCount = start.existingCount,
                                   !.compaction = start.compaction])
    /\ UNCHANGED <<files, written, truncations, clock, unreadable, closed, timer>>

\* SELECT id FROM sessions; vault.js:30
StepEnsure(p) ==
    /\ pc[p].at = "ensure"
    /\ pc' = Running(p, IF SessionExists(db, pc[p].sessionId) THEN "selectMax"
                        ELSE "insertSession", pc[p])
    /\ UNCHANGED <<files, written, truncations, db, lastSync, clock, last, unreadable, closed, timer>>

\* INSERT INTO sessions; vault.js:32-35. sessions.id is the PRIMARY KEY: when the
\* row exists by now the statement fails and syncSession throws
StepInsertSession(p) ==
    /\ pc[p].at = "insertSession"
    /\ IF SessionExists(db, pc[p].sessionId)
       THEN /\ pc' = [pc EXCEPT ![p] = Idle]
            /\ last' = [NoCall EXCEPT !.op = "syncSession", !.proc = p,
                           !.file = pc[p].file, !.sessionId = pc[p].sessionId,
                           !.threw = TRUE]
            /\ UNCHANGED db
       ELSE /\ db' = InsertSession(db, pc[p].sessionId, clock)
            /\ pc' = Running(p, "selectMax", pc[p])
            /\ UNCHANGED last
    /\ UNCHANGED <<files, written, truncations, lastSync, clock, unreadable, closed, timer>>

\* SELECT MAX(message_index); vault.js:42-46
StepSelectMax(p) ==
    /\ pc[p].at = "selectMax"
    /\ pc' = Running(p, "insertMessage",
                     [pc[p] EXCEPT !.newIndex = NewIndex(db, pc[p].sessionId)])
    /\ UNCHANGED <<files, written, truncations, db, lastSync, clock, last, unreadable, closed, timer>>

\* INSERT INTO messages; vault.js:48-51
StepInsertMessage(p) ==
    /\ pc[p].at = "insertMessage"
    /\ db' = InsertMessage(db, pc[p].sessionId, pc[p].newIndex,
                           SyncedMessage(pc[p].messages[pc[p].i + 1]), clock)
    /\ pc' = Running(p, "updateSession", pc[p])
    /\ UNCHANGED <<files, written, truncations, lastSync, clock, last, unreadable, closed, timer>>

\* UPDATE sessions; vault.js:54-57, then synced++ and the next iteration
StepUpdateSession(p) ==
    /\ pc[p].at = "updateSession"
    /\ db' = UpdateSession(db, pc[p].sessionId, clock)
    /\ Continue(p, [pc[p] EXCEPT !.i = @ + 1, !.synced = @ + 1])
    /\ UNCHANGED <<files, written, truncations, clock, unreadable, closed, timer>>

\* a statement of appendMessage fails (disk full, I/O error, database locked): the
\* exception leaves syncSession before watcher.js:129 is reached; the process and
\* its lastSync stay
StepThrow(p) ==
    /\ pc[p].at # "idle"
    /\ pc' = [pc EXCEPT ![p] = Idle]
    /\ last' = [NoCall EXCEPT !.op = "syncSession", !.proc = p,
                   !.file = pc[p].file, !.sessionId = pc[p].sessionId,
                   !.threw = TRUE]
    /\ UNCHANGED <<files, written, truncations, db, lastSync, clock, unreadable, closed,
                   timer>>

\* watcher.syncAll() in process p, during which the append after the first
\* fault.after appends to the session of fault.file fails (NoFault: none does)
SyncAllFault(p, fault) ==
    /\ pc[p].at = "idle"
    /\ LET r == SyncAllFaulty(fault, unreadable, db, lastSync[p], p, 1, 0, 0, clock)
       IN  /\ db' = r.db
           /\ lastSync' = [lastSync EXCEPT ![p] = r.cursor]
           /\ last' = r.ret
    /\ UNCHANGED <<files, written, truncations, pc, clock, unreadable, closed, timer>>

\* the process is terminated between two statements; the next one starts with an
\* empty lastSync
Crash(p) ==
    /\ pc[p].at # "idle"
    /\ pc' = [pc EXCEPT ![p] = Idle]
    /\ lastSync' = [lastSync EXCEPT ![p] = EmptyCursor]
    /\ last' = [NoCall EXCEPT !.op = "crash", !.proc = p, !.file = pc[p].file,
                   !.sessionId = pc[p].sessionId]
    /\ timer' = [timer EXCEPT ![p] = FALSE]
    /\ UNCHANGED <<files, written, truncations, db, clock, unreadable, closed>>

----------------------------------------------------------------------------
(* Specifications *)

Init ==
    /\ files = [f \in Files |-> <<SessionLine(FileId(f))>>]
    /\ written = [f \in Files |-> 0]
    /\ truncations = [f \in Files |-> 0]
    /\ db = EmptyDb
    /\ lastSync = [p \in Procs |-> EmptyCursor]
    /\ pc = [p \in Procs |-> Idle]
    /\ clock = 0
    /\ last = NoCall
    /\ unreadable = {}
    /\ closed = FALSE
    /\ timer = [p \in Procs |-> FALSE]

\* the clock stands still: what syncSession stores and returns does not depend on
\* the time of the call
Next ==
    \/ \E f \in Files : HostAppend(f)
    \/ \E f \in Files : HostTruncate(f)
    \/ \E f \in Files : SyncSession("p1", f)
    \/ SyncAll("p1")
    \/ Restart("p1")

Spec == Init /\ [][Next]_vars

NextStore ==
    \/ HostAppend("f1")
    \/ Tick
    \/ SyncSession("p1", "f1")
    \/ \E s \in ApiSessions : ApiAppend(s, "user")
    \/ ApiSnapshot("session:a", "snap", "manual")
    \/ ApiCompaction("session:a")

SpecStore == Init /\ [][NextStore]_vars

NextSteps ==
    \/ HostAppend("f1")
    \/ \E p \in Procs : SyncBegin(p, "f1")
    \/ \E p \in Procs : StepEnsure(p)
    \/ \E p \in Procs : StepInsertSession(p)
    \/ \E p \in Procs : StepSelectMax(p)
    \/ \E p \in Procs : StepInsertMessage(p)
    \/ \E p \in Procs : StepUpdateSession(p)
    \/ \E p \in Procs : Crash(p)

SpecSteps == Init /\ [][NextSteps]_vars

\* a transcript of n message lines
Transcript(f, n) ==
    [i \in 1..(n + 1) |->
        IF i = 1 THEN SessionLine(FileId(f))
        ELSE MessageLine(RoleOf(i - 1), ContentOf(f, i - 1), i - 1)]

\* the store after syncSession has stored a transcript of n message lines at time 0,
\* written out row by row (AppendLoop's recursion is too deep for TLC at n = 100)
SyncedStore(f, n) ==
    LET sessionId == "session:" \o FileId(f)
        row(i) == [id |-> i, session_id |-> sessionId, message_index |-> i - 1,
                   role |-> RoleOf(i), content |-> Token(f, i), timestamp |-> 0,
                   metadata |-> JsonStringify(TimestampMetadata(i))]
    IN  [sessions |-> IF n = 0 THEN {}
                      ELSE {[id |-> sessionId, created_at |-> 0, last_activity |-> 0,
                             total_messages |-> n]},
         messages |-> [i \in 1..n |-> row(i)],
         fts |-> {[rowid |-> i, content |-> Token(f, i)] : i \in 1..n},
         snapshots |-> <<>>, compactions |-> <<>>]

\* f1 holds n message lines and has been synchronized by a process that is still
\* running (its cursor is n) or has ended since (the cursor is empty)
InitDrop ==
    \E n \in (0..MaxDropLen) \cup {100} :
        LET r == SyncSessionCall(EmptyDb, EmptyCursor, "p1", "f1", Transcript("f1", n), 0)
        IN  /\ files = [f \in Files |-> IF f = "f1" THEN Transcript(f, n)
                                        ELSE Transcript(f, 0)]
            /\ written = [f \in Files |-> IF f = "f1" THEN n ELSE 0]
            /\ truncations = [f \in Files |-> 0]
            /\ db = IF n <= MaxDropLen THEN r.db ELSE SyncedStore("f1", n)
            /\ lastSync \in {[p \in Procs |->
                                 IF p = "p1" THEN SetCursor(EmptyCursor, "session:a", n)
                                 ELSE EmptyCursor],
                             [p \in Procs |-> EmptyCursor]}
            /\ pc = [p \in Procs |-> Idle]
            /\ clock = 0
            /\ last = NoCall
            /\ unreadable = {}
            /\ closed = FALSE
            /\ timer = [p \in Procs |-> FALSE]

\* SyncedStore is the store syncSession builds
SyncedStoreIsSynced ==
    \A n \in 0..MaxDropLen :
        SyncedStore("f1", n) =
            SyncSessionCall(EmptyDb, EmptyCursor, "p1", "f1", Transcript("f1", n), 0).db

NextDrop ==
    \/ HostAppend("f1")
    \/ HostTruncate("f1")
    \/ SyncSession("p1", "f1")
    \/ Restart("p1")

SpecDrop == InitDrop /\ [][NextDrop]_vars

\* one synchronizer process at a time, terminated between any two statements of a
\* call (Crash) or between two calls (Restart), over transcripts that only grow
NextRestart ==
    \/ \E f \in Files : HostAppend(f)
    \/ \E f \in Files : SyncBegin("p1", f)
    \/ StepEnsure("p1")
    \/ StepInsertSession("p1")
    \/ StepSelectMax("p1")
    \/ StepInsertMessage("p1")
    \/ StepUpdateSession("p1")
    \/ Crash("p1")
    \/ Restart("p1")

SpecRestart == Init /\ [][NextRestart]_vars

\* five transcripts, one per session: f1 is new, the others hold one message each
InitFiles ==
    /\ files = [f \in {FileOrder[i] : i \in 1..Len(FileOrder)} |->
                   Transcript(f, IF f = "f1" THEN 0 ELSE 1)]
    /\ written = [f \in {FileOrder[i] : i \in 1..Len(FileOrder)} |->
                     IF f = "f1" THEN 0 ELSE 1]
    /\ truncations = [f \in {FileOrder[i] : i \in 1..Len(FileOrder)} |-> 0]
    /\ db = EmptyDb
    /\ lastSync = [p \in Procs |-> EmptyCursor]
    /\ pc = [p \in Procs |-> Idle]
    /\ clock = 0
    /\ last = NoCall
    /\ unreadable = {}
    /\ closed = FALSE
    /\ timer = [p \in Procs |-> FALSE]

NextFiles ==
    \/ HostAppend("f1")
    \/ \E f \in DOMAIN files : HostChmod(f)
    \/ SyncAll("p1")

SpecFiles == InitFiles /\ [][NextFiles]_vars

\* watch in one process over two growing transcripts, the first of which the host
\* makes unreadable and readable again; the timer fires again and again
NextWatch ==
    \/ \E f \in Files : HostAppend(f)
    \/ HostChmod("f1")
    \/ Watch("p1")
    \/ IntervalTick("p1")

\* ENABLED <<IntervalTick(p)>>_vars: the timer is set and its pass changes the state
IntervalTickEnabled(p) ==
    /\ pc[p].at = "idle"
    /\ timer[p]
    /\ LET r == SyncAllLoop(db, lastSync[p], p, 1, 0, 0, clock)
       IN  r.db # db \/ r.cursor # lastSync[p] \/ r.ret # last \/ r.ret.threw

\* WF_vars(IntervalTick("p1")) with its ENABLED written out: setInterval keeps
\* calling the callback
TimerFairness ==
    \/ []<>(~IntervalTickEnabled("p1"))
    \/ []<><<IntervalTick("p1")>>_vars

SpecWatch == Init /\ [][NextWatch]_vars /\ TimerFairness

\* the operations of the store before and after close()
NextClose ==
    \/ \E s \in ApiSessions : ApiAppend(s, "user")
    \/ ApiSnapshot("session:a", "snap", "manual")
    \/ ApiCompaction("session:a")
    \/ \E op \in ReadOps, s \in ApiSessions : Query(op, s)
    \/ Compose("session:a", 50)
    \/ Close

SpecClose == Init /\ [][NextClose]_vars

\* the session record, 10 valid message lines and one undecodable line after the
\* first pos of them
TenValidOneBad(f, pos) ==
    LET valid == [k \in 1..10 |-> MessageLine(RoleOf(k), ContentOf(f, k), k)]
    IN  <<SessionLine(FileId(f))>> \o SubSeq(valid, 1, pos) \o <<BadLine>>
            \o SubSeq(valid, pos + 1, 10)

\* f1 holds at most one line of any kind after its session record, or 10 valid
\* message lines and one undecodable line
InitParse ==
    /\ \E body \in {<<>>} \cup {<<l>> : l \in SampleLines}
                    \cup {Tail(TenValidOneBad("f1", pos)) : pos \in 0..10} :
           files = [f \in Files |->
                       IF f = "f1" THEN <<SessionLine(FileId(f))>> \o body
                       ELSE <<SessionLine(FileId(f))>>]
    /\ written = [f \in Files |-> 0]
    /\ truncations = [f \in Files |-> 0]
    /\ db = EmptyDb
    /\ lastSync = [p \in Procs |-> EmptyCursor]
    /\ pc = [p \in Procs |-> Idle]
    /\ clock = 0
    /\ last = NoCall
    /\ unreadable = {}
    /\ closed = FALSE
    /\ timer = [p \in Procs |-> FALSE]

\* transcripts of lines of every kind, synchronized as they grow
NextParse ==
    \/ \E line \in SampleLines : HostWrite("f1", line)
    \/ SyncSession("p1", "f1")

SpecParse == InitParse /\ [][NextParse]_vars

SnapshotNames == {"snap", "before-refactor"}
Triggers == {"manual", "auto"}

\* createSnapshot on sessions with and without messages
NextSnapshot ==
    \/ \E s \in ApiSessions : ApiAppend(s, "user")
    \/ \E s \in ApiSessions, name \in SnapshotNames, trigger \in Triggers :
           ApiSnapshot(s, name, trigger)

SpecSnapshot == Init /\ [][NextSnapshot]_vars

\* requested message counts of generateRecoveryFile; 50 is its default
MessageCounts == {1, 2, 50}

NextRecovery ==
    \/ \E s \in ApiSessions, r \in Roles : ApiAppend(s, r)
    \/ Tick
    \/ ClockSetBack
    \/ \E s \in ApiSessions, n \in MessageCounts : Compose(s, n)

SpecRecovery == Init /\ [][NextRecovery]_vars

\* generateRecoveryFile on sessions that are unknown, that have a record and no
\* message (createSnapshot and recordCompaction make the record), or that have
\* fewer or more messages than requested
NextCompose ==
    \/ \E s \in ApiSessions : ApiAppend(s, "user")
    \/ ApiSnapshot("session:a", "snap", "manual")
    \/ ApiCompaction("session:a")
    \/ \E s \in ApiSessions, n \in MessageCounts : Compose(s, n)

SpecCompose == Init /\ [][NextCompose]_vars

\* limits of search; 20 is its default
SearchLimits == {1, 20}

\* search with and without session filter over sessions whose messages share words
NextSearch ==
    \/ \E s \in ApiSessions, w \in Words : ApiSay(s, w)
    \/ \E q \in Words, s \in ApiSessions \cup {NoFilter}, limit \in SearchLimits :
           SearchCall(q, s, limit)

SpecSearch == Init /\ [][NextSearch]_vars

\* messages appended without metadata (direct calls) and with metadata (the
\* synchronizer passes { timestamp }), read back by getMessages
NextMetadata ==
    \/ HostAppend("f1")
    \/ SyncSession("p1", "f1")
    \/ \E s \in ApiSessions : ApiAppend(s, "user")
    \/ \E s \in ApiSessions : Query("getMessages", s)

SpecMetadata == Init /\ [][NextMetadata]_vars

\* one synchronizer process whose appends can fail at any statement, over
\* transcripts that only grow
NextThrow ==
    \/ \E f \in Files : HostAppend(f)
    \/ \E f \in Files : SyncBegin("p1", f)
    \/ StepEnsure("p1")
    \/ StepInsertSession("p1")
    \/ StepSelectMax("p1")
    \/ StepInsertMessage("p1")
    \/ StepUpdateSession("p1")
    \/ StepThrow("p1")

SpecThrow == Init /\ [][NextThrow]_vars

\* the lines written to a transcript that starts without session record
HeadlessLines == {UserString, AssistantFragments, BadLine, SessionLine("a")}

\* f1 starts empty, without session record; f2 is a transcript of session b
InitHeadless ==
    /\ files = [f \in Files |-> IF f = "f1" THEN <<>> ELSE <<SessionLine(FileId(f))>>]
    /\ written = [f \in Files |-> 0]
    /\ truncations = [f \in Files |-> 0]
    /\ db = EmptyDb
    /\ lastSync = [p \in Procs |-> EmptyCursor]
    /\ pc = [p \in Procs |-> Idle]
    /\ clock = 0
    /\ last = NoCall
    /\ unreadable = {}
    /\ closed = FALSE
    /\ timer = [p \in Procs |-> FALSE]

\* syncSession on a transcript that has no session record, or gets one late
NextHeadless ==
    \/ \E line \in HeadlessLines : HostWrite("f1", line)
    \/ HostAppend("f2")
    \/ \E f \in Files : SyncSession("p1", f)

SpecHeadless == InitHeadless /\ [][NextHeadless]_vars

\* the appends of a delta after which the next one can fail
FaultAfter == {0, 1}

\* syncAll over two growing transcripts, with unreadable files and with appends
\* that fail
NextAggregate ==
    \/ \E f \in Files : HostAppend(f)
    \/ HostChmod("f2")
    \/ \E fault \in {NoFault} \cup [file : Files, after : FaultAfter] :
           SyncAllFault("p1", fault)

SpecAggregate == Init /\ [][NextAggregate]_vars

\* checkpoints and events of a session that keeps growing and is compacted:
\* direct calls next to the synchronizer, from a synchronized transcript
NextImmutable ==
    \/ HostAppend("f1")
    \/ HostTruncate("f1")
    \/ SyncSession("p1", "f1")
    \/ ApiAppend("session:a", "user")
    \/ ApiSnapshot("session:a", "snap", "manual")
    \/ ApiCompaction("session:a")

\* f1 is new, or holds CompactionSlack + 1 synchronized messages, the fewest whose
\* loss the running synchronizer records
InitImmutable ==
    \/ Init
    \/ /\ InitDrop
       /\ Len(db.messages) = CompactionSlack + 1
       /\ lastSync["p1"] # EmptyCursor

SpecImmutable == InitImmutable /\ [][NextImmutable]_vars

----------------------------------------------------------------------------
(* Claims *)

SessionIds == {"session:a", "session:b", "api:x"}

Synced(f) == last.op = "syncSession" /\ last.file = f /\ last.sessionId # ""

\* the number of stored rows of a session that hold a parsed message
Stored(d, sessionId, msg) ==
    LET rows == MessagesOf(d, sessionId)
    IN  Cardinality({j \in 1..Len(rows) :
                        rows[j].content = msg.content /\ rows[j].role = msg.role})

\* C1: when syncSession has returned for a transcript, every message parsed from
\* that transcript is stored in the session's log exactly once, also when the host
\* truncated the transcript between calls and wrote new messages after it.
C1_EveryMessageStoredOnce ==
    \A f \in Files :
        Synced(f) =>
            LET msgs == ParseSessionFile(files[f]).messages
            IN  \A i \in 1..Len(msgs) : Stored(db, last.sessionId, msgs[i]) = 1

\* the store holds exactly the first N parsed messages of the transcript
HoldsPrefix(d, sessionId, msgs) ==
    LET rows == MessagesOf(d, sessionId)
    IN  /\ Len(rows) <= Len(msgs)
        /\ \A i \in 1..Len(rows) :
               /\ rows[i].message_index = i - 1
               /\ rows[i].content = msgs[i].content
               /\ rows[i].role = msgs[i].role

\* C2: when the store holds exactly the first N parsed messages of a transcript of
\* N+k messages, syncSession appends exactly k rows, with indices N..N+k-1 and the
\* content of positions N..N+k-1 in order, returns synced = k and total = N+k, and
\* leaves the N stored rows as they were.
C2_IncrementalAppend ==
    [][\A f \in Files :
          LET parsed == ParseSessionFile(files[f])
              sid == parsed.session.sessionKey
              msgs == parsed.messages
              N == MessageCount(db, sid)
              after == MessagesOf(db', sid)
          IN  (SyncSession("p1", f) /\ parsed.session.present
                  /\ HoldsPrefix(db, sid, msgs))
              => /\ Len(after) = Len(msgs)
                 /\ SubSeq(after, 1, N) = MessagesOf(db, sid)
                 /\ \A j \in (N + 1)..Len(msgs) :
                        /\ after[j].message_index = j - 1
                        /\ after[j].content = msgs[j].content
                        /\ after[j].role = msgs[j].role
                 /\ Len(db'.messages) = Len(db.messages) + (Len(msgs) - N)
                 /\ last'.synced = Len(msgs) - N
                 /\ last'.total = Len(msgs)]_vars

\* C2 witness: a call found N >= 1 messages stored, appended k >= 1 and the store
\* now holds the transcript.
C2_Witness ==
    \E f \in Files :
        /\ Synced(f)
        /\ last.existingCount >= 1
        /\ last.synced >= 1
        /\ last.total = last.existingCount + last.synced
        /\ HoldsPrefix(db, last.sessionId, ParseSessionFile(files[f]).messages)

\* C3: a syncSession call that follows a syncSession (or syncAll) of the same,
\* unchanged file appends nothing: it returns synced = 0 and the stored messages
\* are the same.
C3_IdempotentResync ==
    [][\A f \in Files :
          (SyncSession("p1", f) /\ (Synced(f) \/ last.op = "syncAll")
              /\ ParseSessionFile(files[f]).session.present)
          => /\ last'.synced = 0
             /\ db'.messages = db.messages]_vars

\* C3 witness: a call returned synced = 0 for a transcript of messages whose count
\* the cursor already held from an earlier call.
C3_Witness ==
    \E f \in Files :
        /\ Synced(f)
        /\ last.synced = 0
        /\ last.total >= 2
        /\ last.priorCount = last.total
        /\ last.existingCount = last.total

\* the event syncSession records for a drop from before to after parsed messages
IsEvent(e, sessionId, before, after) ==
    /\ e.session_id = sessionId
    /\ e.messages_before = before
    /\ e.messages_after = after
    /\ e.summary_available = 1

\* C4: syncSession records a truncation event if and only if the cursor's count
\* is positive and the parsed count is less than that count minus 5; the event
\* has before = the cursor's count, after = the parsed count and summary-available
\* set. From 100, 96 and 95 record nothing and 94 records one event (100, 94).
C4_TruncationThreshold ==
    [][LET parsed == ParseSessionFile(files["f1"])
           sid == parsed.session.sessionKey
           n == Len(parsed.messages)
           priorCount == IF sid \in DOMAIN lastSync["p1"]
                         THEN lastSync["p1"][sid].messageCount ELSE 0
           events == db.compactions
       IN  SyncSession("p1", "f1") =>
               /\ IF priorCount > 0 /\ n < priorCount - 5
                  THEN /\ Len(db'.compactions) = Len(events) + 1
                       /\ SubSeq(db'.compactions, 1, Len(events)) = events
                       /\ IsEvent(db'.compactions[Len(events) + 1], sid, priorCount, n)
                  ELSE db'.compactions = events
               /\ (priorCount = 100 /\ n \in {95, 96}) => db'.compactions = events
               /\ (priorCount = 100 /\ n = 94) =>
                      /\ Len(db'.compactions) = Len(events) + 1
                      /\ IsEvent(db'.compactions[Len(events) + 1], sid, 100, 94)]_vars

\* C4 witness: a call that found 94 messages with the cursor at 100 has recorded
\* the event (100, 94).
C4_Witness ==
    /\ Synced("f1")
    /\ last.priorCount = 100
    /\ last.total = 94
    /\ Len(db.compactions) = 1
    /\ IsEvent(db.compactions[1], "session:a", 100, 94)

\* C4, the other side of the threshold: a call that found 95 messages with the
\* cursor at 100 has recorded nothing.
C4_WitnessWithinSlack ==
    /\ Synced("f1")
    /\ last.priorCount = 100
    /\ last.total = 95
    /\ db.compactions = <<>>

\* C5: when the cursor has no entry for the session, a parsed count more than 5
\* below the store's persisted count makes syncSession record a truncation event
\* with before = the persisted count.
C5_ColdStartBaseline ==
    [][LET parsed == ParseSessionFile(files["f1"])
           sid == parsed.session.sessionKey
           n == Len(parsed.messages)
           persisted == MessageCount(db, sid)
       IN  (SyncSession("p1", "f1") /\ sid \notin DOMAIN lastSync["p1"]
               /\ n < persisted - 5)
           => /\ Len(db'.compactions) = Len(db.compactions) + 1
              /\ IsEvent(db'.compactions[Len(db.compactions) + 1], sid, persisted, n)]_vars

\* C6: the message indices of every session are 0, 1, ..., n-1 in append order.
C6_ContiguousIndices ==
    \A s \in SessionIds :
        LET rows == MessagesOf(db, s)
        IN  \A i \in 1..Len(rows) : rows[i].message_index = i - 1

\* C6 witness: appends to two sessions interleaved, with different timestamps
\* within one session.
C6_Witness ==
    \E i, j, k \in 1..Len(db.messages) :
        /\ i < j /\ j < k
        /\ db.messages[i].session_id = db.messages[k].session_id
        /\ db.messages[j].session_id # db.messages[i].session_id
        /\ db.messages[i].timestamp # db.messages[k].timestamp
        /\ db.messages[k].message_index >= 1

AllIdle == \A p \in Procs : pc[p].at = "idle"

\* C7: with two processes on one store file, no two messages of a session share
\* a message index and no transcript message is stored twice.
C7_SecondWriterSafe ==
    \A i, j \in 1..Len(db.messages) :
        (i # j /\ db.messages[i].session_id = db.messages[j].session_id)
        => /\ db.messages[i].message_index # db.messages[j].message_index
           /\ db.messages[i].content # db.messages[j].content

\* C8: between operations, also after a process ended part-way through an append,
\* every session's total_messages is the number of its message rows.
C8_AtomicAppend ==
    AllIdle =>
        \A r \in db.sessions : r.total_messages = MessageCount(db, r.id)

\* C9: the full-text index holds exactly one entry per stored message, and a
\* search for a token that only one message holds returns that message.
C9_IndexConsistent ==
    /\ db.fts = {[rowid |-> db.messages[i].id, content |-> db.messages[i].content] :
                    i \in 1..Len(db.messages)}
    /\ Cardinality(db.fts) = Len(db.messages)
    /\ \A i \in 1..Len(db.messages) :
           (\A j \in 1..Len(db.messages) :
                j # i => db.messages[j].content # db.messages[i].content)
           => db.messages[i] \in Search(db, db.messages[i].content, NoFilter, 20)

\* C9 witness: appendMessage has just returned, the store holds other messages,
\* and the search for the new message's token returns exactly it.
C9_Witness ==
    /\ last.op = "appendMessage"
    /\ Len(db.messages) >= 3
    /\ db.messages[Len(db.messages)].metadata = "null"
    /\ Search(db, db.messages[Len(db.messages)].content, NoFilter, 20)
           = {db.messages[Len(db.messages)]}

\* C10: no step changes or removes a stored message: the messages table only
\* grows at its end.
C10_AppendOnly ==
    [][/\ Len(db'.messages) >= Len(db.messages)
       /\ SubSeq(db'.messages, 1, Len(db.messages)) = db.messages]_vars

\* C10 witness: a store with messages on which appendMessage, syncSession,
\* createSnapshot and recordCompaction have all acted.
C10_Witness ==
    /\ Len(db.messages) >= 3
    /\ \E i \in 1..Len(db.messages) : db.messages[i].metadata = "null"
    /\ \E i \in 1..Len(db.messages) : db.messages[i].metadata # "null"
    /\ Len(db.snapshots) >= 1
    /\ Len(db.compactions) >= 1
    /\ db.snapshots[1].message_count >= 1
    /\ MessageCount(db, db.compactions[1].session_id) >= 1

\* C11: generateRecoveryFile renders exactly the min(n, stored count) most
\* recently appended messages of the session, oldest first, in append order,
\* whatever timestamps the appends got; 3 messages and n = 50 render all 3.
C11_RecoveryOrder ==
    (last.op = "generateRecoveryFile" /\ ~last.threw) =>
        LET rows == MessagesOf(db, last.sessionId)
            k == Min(last.requested, Len(rows))
            window == SubSeq(rows, Len(rows) - k + 1, Len(rows))
            entries == last.document.entries
        IN  /\ Len(entries) = k
            /\ \A i \in 1..k :
                   /\ entries[i].content = window[i].content
                   /\ entries[i].role = ToUpperCase(window[i].role)
            /\ (Len(rows) = 3 /\ last.requested = 50) => Len(entries) = 3

\* C12: when the synchronizer process is terminated at any point of a pass and new
\* processes with an empty cursor synchronize the same grow-only transcripts, the
\* store never holds a transcript message twice or at another index than its
\* position, and after a completed call it holds every message the call parsed.
C12_RestartSafe ==
    \A f \in Files :
        LET parsed == ParseSessionFile(files[f])
            sid == parsed.session.sessionKey
        IN  /\ HoldsPrefix(db, sid, parsed.messages)
            /\ (Synced(f) /\ ~last.threw /\ pc["p1"].at = "idle")
                   => MessageCount(db, sid) = last.total

\* C12 witness: a process was terminated between INSERT INTO messages and UPDATE
\* sessions (the session's total_messages stayed behind), and a later process with
\* an empty cursor resumed from the persisted count and completed the transcript.
C12_Witness ==
    /\ Synced("f1") /\ ~last.threw /\ pc["p1"].at = "idle"
    /\ last.priorCount = 0
    /\ last.existingCount >= 1
    /\ last.synced >= 1
    /\ MessageCount(db, "session:a") = 2
    /\ \E r \in db.sessions : r.id = "session:a" /\ r.total_messages < 2

SessionOf(f) == ParseSessionFile(files[f]).session.sessionKey

\* the messages of transcript f the store does not hold yet
Delta(d, f) ==
    LET n == Len(ParseSessionFile(files[f]).messages)
    IN  IF n > MessageCount(d, SessionOf(f)) THEN n - MessageCount(d, SessionOf(f)) ELSE 0

\* C13: when syncSession fails for some of the discovered files, syncAll still runs
\* syncSession on every other discovered file and stores their new messages, counts
\* them in totalSynced and sessionsUpdated, does not throw, and returns filesScanned
\* = the number of discovered files, the failing ones included (5 files with 1
\* unreadable: filesScanned = 5 and the other 4 synchronized).
C13_PartialFailure ==
    [][SyncAll("p1") =>
          LET ok == DOMAIN files \ unreadable
          IN  /\ last'.op = "syncAll" /\ ~last'.threw
              /\ last'.filesScanned = Cardinality(DOMAIN files)
              /\ \A f \in ok :
                     /\ MessageCount(db', SessionOf(f)) =
                            MessageCount(db, SessionOf(f)) + Delta(db, f)
                     /\ SessionOf(f) \in DOMAIN lastSync'["p1"]
                     /\ lastSync'["p1"][SessionOf(f)].messageCount =
                            Len(ParseSessionFile(files[f]).messages)
              /\ \A f \in unreadable :
                     MessagesOf(db', SessionOf(f)) = MessagesOf(db, SessionOf(f))
              /\ last'.synced = Len(db'.messages) - Len(db.messages)
              /\ last'.sessionsUpdated = Cardinality({f \in ok : Delta(db, f) > 0})
              /\ (Cardinality(DOMAIN files) = 5 /\ Cardinality(unreadable) = 1)
                     => /\ last'.filesScanned = 5
                        /\ Cardinality(DOMAIN lastSync'["p1"]) >= 4]_vars

\* C13 witness: syncAll over 5 files with 1 unreadable has returned 4 messages
\* appended in 4 sessions and filesScanned = 5.
C13_Witness ==
    /\ last.op = "syncAll" /\ ~last.threw
    /\ Cardinality(DOMAIN files) = 5
    /\ Cardinality(unreadable) = 1
    /\ last.filesScanned = 5
    /\ last.synced = 4
    /\ last.sessionsUpdated = 4
    /\ Len(db.messages) = 4

\* the object syncAll returns, watcher.js:156
SyncAllReturn(ret) ==
    [totalSynced |-> ret.synced, sessionsUpdated |-> ret.sessionsUpdated,
     filesScanned |-> ret.filesScanned]

\* C14: the result syncAll returns reports the error of every file whose
\* synchronization failed: it differs from the result of the same pass with that
\* file readable and holding nothing new.
C14_ErrorsReported ==
    [][SyncAll("p1") =>
          \A f \in unreadable :
              Delta(db, f) = 0 =>
                  SyncAllReturn(last') #
                  SyncAllReturn(SyncAllOver(unreadable \ {f}, db, lastSync["p1"], "p1",
                                            1, 0, 0, clock).ret)]_vars

\* message k of transcript f is stored n times
StoredTimes(f, k, n) ==
    Cardinality({j \in 1..Len(db.messages) :
                    /\ db.messages[j].session_id = "session:" \o FileId(f)
                    /\ db.messages[j].content = Token(f, k)
                    /\ db.messages[j].message_index = k - 1}) = n

\* C15: watch runs syncAll at once and then on every tick of its timer; with a fair
\* timer every message the host appends to a growing transcript is eventually
\* stored, and stored once, also when another transcript fails in the passes; and
\* once set the timer stays set.
C15_WatchLiveness ==
    /\ \A k \in 1..MaxOther :
           (timer["p1"] /\ written["f2"] >= k) ~> StoredTimes("f2", k, 1)
    /\ [][timer["p1"] => timer'["p1"]]_vars
    /\ [][Watch("p1") => (last'.op = "syncAll" /\ timer'["p1"])]_vars
    /\ [](\A f \in Files : \A k \in 1..MaxWritten :
             StoredTimes(f, k, 0) \/ StoredTimes(f, k, 1))

\* C15 witness: the timer is set, the last pass ran with f1 unreadable and stored
\* the message of f2.
C15_Witness ==
    /\ timer["p1"]
    /\ last.op = "syncAll" /\ last.synced = 1
    /\ "f1" \in unreadable
    /\ Len(MessageLines("f1")) >= 1
    /\ StoredTimes("f1", 1, 0)
    /\ StoredTimes("f2", 1, 1)

StoreOps ==
    ReadOps \cup {"appendMessage", "createSnapshot", "recordCompaction",
                  "generateRecoveryFile"}

\* C16: once close() has returned, every call of another store operation (append,
\* getMessages, search, createSnapshot, recordCompaction, getSnapshots,
\* getCompactions, getStats, getSessionStats, generateRecoveryFile) ends with an
\* error and changes nothing in the store.
C16_ClosedStoreFails ==
    [][closed =>
          /\ db' = db
          /\ closed'
          /\ last'.op \in StoreOps
          /\ last'.threw
          /\ last'.rows = <<>> /\ last'.document = NoDocument]_vars

\* C16 witness: a store with messages, a checkpoint and an event was closed and
\* generateRecoveryFile has failed on it.
C16_Witness ==
    /\ closed
    /\ last.op = "generateRecoveryFile" /\ last.threw
    /\ Len(db.messages) >= 1
    /\ Len(db.snapshots) >= 1
    /\ Len(db.compactions) >= 1

\* the checkpoints of a session, oldest first
CheckpointsOf(d, sessionId) ==
    SelectSeq(d.snapshots, LAMBDA c : c.session_id = sessionId)

\* the id of the message appended last to the session, 0 when it has none
MostRecentlyAppended(d, sessionId) ==
    LET rows == MessagesOf(d, sessionId)
    IN  IF rows = <<>> THEN 0 ELSE rows[Len(rows)].id

C18_SessionsOwnMessages ==
    /\ \A r \in db.sessions : MessageCount(db, r.id) >= 1
    /\ GetStats(db).sessions =
           Cardinality({db.messages[i].session_id : i \in 1..Len(db.messages)})

WithoutBadLines(lines) == SelectSeq(lines, LAMBDA l : l # BadLine)

\* role and content of parsed messages or of stored rows
RoleAndContent(ms) == [i \in 1..Len(ms) |-> [role |-> ms[i].role, content |-> ms[i].content]]

\* C19: an undecodable line is skipped and never makes the parse fail: the messages
\* parsed from a transcript are those parsed from the transcript without its
\* undecodable lines (10 of them for 10 valid message lines and one undecodable
\* line), and a syncSession call on such a transcript does not fail and leaves the
\* valid messages in the store.
C19_MalformedLineTolerance ==
    /\ \A f \in Files :
          /\ ParseSessionFile(files[f]).messages =
                 ParseSessionFile(WithoutBadLines(files[f])).messages
          /\ ParseSessionFile(files[f]).session =
                 ParseSessionFile(WithoutBadLines(files[f])).session
    /\ \A pos \in 0..10 :
          files["f1"] = TenValidOneBad("f1", pos)
              => Len(ParseSessionFile(files["f1"]).messages) = 10
    /\ last.op = "syncSession" =>
          /\ ~last.threw
          /\ RoleAndContent(MessagesOf(db, last.sessionId)) =
                 RoleAndContent(ParseSessionFile(WithoutBadLines(files[last.file])).messages)

\* C19 witness: the transcript of 10 valid message lines with an undecodable line
\* in the middle has been synchronized and its 10 messages are stored.
C19_Witness ==
    /\ files["f1"] = TenValidOneBad("f1", 5)
    /\ last.op = "syncSession" /\ last.file = "f1"
    /\ last.synced = 10
    /\ Len(db.messages) = 10

\* what each line of a transcript contributes, written out line by line: one
\* message for a message record of role user or assistant with text, nothing else
ExpectedOf(line) ==
    CASE line = UserString -> <<[role |-> "user", content |-> "hello"]>>
      [] line = AssistantFragments -> <<[role |-> "assistant", content |-> "a\nb"]>>
      [] line \in {SystemString, UserEmptyString, AssistantToolUseOnly,
                   MessageWithoutBody, OtherRecord, BadLine} -> <<>>
      [] line.type = "session" -> <<>>
      [] OTHER -> <<[role |-> IF line.timestamp \in {1, 3, 5, 7, 9} THEN "user"
                             ELSE "assistant",
                     content |-> "m" \o ToStr(line.timestamp)]>>

RECURSIVE ExpectedMessages(_)
ExpectedMessages(lines) ==
    IF lines = <<>> THEN <<>>
    ELSE ExpectedOf(Head(lines)) \o ExpectedMessages(Tail(lines))

\* the rows syncSession stored (it passes the line's timestamp as metadata)
SyncedRows == SelectSeq(db.messages, LAMBDA m : m.metadata # "null")

\* C20: the parsed messages are exactly the message records of role user or
\* assistant whose text (the string, or the text fragments of the array joined by
\* a newline) is not empty, in the order of their lines; records of other types or
\* roles and records without text give no message, so every row the synchronizer
\* appends has role user or assistant and a content that is not empty.
C20_ParserSelection ==
    /\ \A f \in Files :
          RoleAndContent(ParseSessionFile(files[f]).messages) = ExpectedMessages(files[f])
    /\ \A i \in 1..Len(SyncedRows) :
          /\ SyncedRows[i].role \in {"user", "assistant"}
          /\ SyncedRows[i].content # ""
    /\ last.op = "syncSession" =>
          RoleAndContent(MessagesOf(db, last.sessionId)) = ExpectedMessages(files[last.file])

\* C20 witness: a transcript holding a system message between an assistant message
\* of two text fragments and a user message has been synchronized into two rows.
C20_Witness ==
    /\ files["f1"] = <<SessionLine("a"), AssistantFragments, SystemString, UserString>>
    /\ last.op = "syncSession" /\ last.file = "f1"
    /\ RoleAndContent(db.messages) =
           <<[role |-> "assistant", content |-> "a\nb"],
             [role |-> "user", content |-> "hello"]>>

\* C21: generateRecoveryFile on a session without stored messages (unknown, or with
\* a session record only) does not fail, returns a document with the header of the
\* session and no conversation entry, and changes nothing in the store: no session
\* record is created.
C21_RecoveryOfEmptySession ==
    [][(last'.op = "generateRecoveryFile" /\ MessageCount(db, last'.sessionId) = 0) =>
          /\ ~last'.threw
          /\ last'.document.session = last'.sessionId
          /\ last'.document.count = 0
          /\ last'.document.entries = <<>>
          /\ db' = db
          /\ SessionExists(db', last'.sessionId) = SessionExists(db, last'.sessionId)]_vars

\* C21 witness: generateRecoveryFile has returned the empty document for a session
\* without record while another session holds messages.
C21_Witness ==
    /\ last.op = "generateRecoveryFile" /\ ~last.threw
    /\ ~SessionExists(db, last.sessionId)
    /\ Len(db.messages) >= 1
    /\ last.document.session = last.sessionId
    /\ last.document.entries = <<>>

\* C26: the header of the document generateRecoveryFile(session, n) returns states
\* the requested message count n, also when the session holds fewer than n messages.
C26_HeaderStatesRequestedCount ==
    (last.op = "generateRecoveryFile" /\ ~last.threw) =>
        /\ last.document.session = last.sessionId
        /\ last.document.count = last.requested

\* page sizes of getMessages
Limits == {1, 2}

\* C22: getMessages(session, limit, offset) returns at most limit messages, all of
\* the session, newest first in descending append order, skipping the offset
\* newest ones: the page at offset k * limit is the k-th slice of the session's
\* messages in reverse append order, so the pages are pairwise disjoint and
\* together hold every message of the session once; an unknown session gives the
\* empty sequence.
C22_QueryPagination ==
    \A s \in SessionIds, limit \in Limits :
        LET newestFirst == Reverse(MessagesOf(db, s))
            n == Len(newestFirst)
        IN  \A k \in 0..n :
                LET page == GetMessages(db, s, limit, k * limit)
                IN  /\ Len(page) <= limit
                    /\ \A i \in 1..Len(page) : page[i].session_id = s
                    /\ page = SubSeq(newestFirst, k * limit + 1, Min(k * limit + limit, n))

\* C23: getStats returns the current numbers of session, message, checkpoint and
\* truncation-event records, getSessionStats(s) the number of messages stored for s
\* (0 for an unknown session); these two, getMessages, search, getSnapshots and
\* getCompactions leave every stored record and the cursor as they are and create
\* no session record.
C23_StatsReadOnly ==
    [][(last'.op \in ReadOps /\ ~closed) =>
          LET s == last'.sessionId
          IN  /\ ~last'.threw
              /\ db' = db
              /\ lastSync' = lastSync
              /\ SessionExists(db', s) = SessionExists(db, s)
              /\ last'.op = "getStats" =>
                     last'.rows =
                        <<[sessions |-> Cardinality({r.id : r \in db.sessions}),
                           messages |-> Len(db.messages),
                           snapshots |-> Len(db.snapshots),
                           compactions |-> Len(db.compactions)]>>
              /\ last'.op = "getSessionStats" =>
                     /\ Len(last'.rows) = 1
                     /\ last'.rows[1].messageCount =
                            Cardinality({i \in 1..Len(db.messages) :
                                            db.messages[i].session_id = s})
                     /\ ~SessionExists(db, s) => last'.rows[1].messageCount = 0]_vars

\* C23 witness: getSessionStats has returned 0 for a session without record while
\* the store holds messages, a checkpoint and an event of another session.
C23_Witness ==
    /\ last.op = "getSessionStats" /\ ~last.threw
    /\ ~SessionExists(db, last.sessionId)
    /\ last.rows = <<[sessionId |-> last.sessionId, messageCount |-> 0]>>
    /\ Len(db.messages) >= 1
    /\ Len(db.snapshots) + Len(db.compactions) >= 1

\* the stored messages of a session whose content is the word
MatchingOf(d, sessionId, word) ==
    {d.messages[i] : i \in {j \in 1..Len(d.messages) :
                                /\ d.messages[j].session_id = sessionId
                                /\ d.messages[j].content = word}}

\* C24: search(query, {sessionId: s}) returns only messages of session s that match
\* the query, and all of them up to the limit (limit of them when more match);
\* matching messages of other sessions never appear.
C24_SearchSessionFilter ==
    (last.op = "search" /\ ~last.threw /\ last.sessionId # NoFilter) =>
        LET matching == MatchingOf(db, last.sessionId, last.query)
        IN  /\ \A m \in last.found : m.session_id = last.sessionId
            /\ last.found \subseteq matching
            /\ Cardinality(last.found) = Min(last.limit, Cardinality(matching))

\* C24 witness: a filtered search has returned the one matching message of its
\* session while another session holds a message with the same word.
C24_Witness ==
    /\ last.op = "search" /\ last.sessionId # NoFilter
    /\ Cardinality(last.found) = 1
    /\ \E m \in DOMAIN db.messages :
          /\ db.messages[m].content = last.query
          /\ db.messages[m].session_id # last.sessionId

\* the metadata appendMessage was given for a stored row: the synchronizer passes
\* { timestamp: k } with the k-th message the host wrote (content m<k>), a direct
\* call of the model passes none
MetadataPassed(row) ==
    IF \E k \in 1..(MaxWritten + 1) : row.content = "m" \o ToStr(k)
    THEN [kind |-> "object",
          timestamp |-> CHOOSE k \in 1..(MaxWritten + 1) : row.content = "m" \o ToStr(k)]
    ELSE [kind |-> "null", timestamp |-> 0]

\* C25: the metadata given to appendMessage is stored and returned verbatim:
\* decoding the metadata of a message returned by getMessages gives the value that
\* was passed, and null for an append without metadata.
C25_MetadataRoundTrip ==
    (last.op = "getMessages" /\ ~last.threw) =>
        \A i \in 1..Len(last.rows) : JsonParse(last.rows[i].metadata) = MetadataPassed(last.rows[i])

\* C25 witness: getMessages has returned a message appended with { timestamp: 2 }
\* and a message appended without metadata.
C25_Witness ==
    /\ last.op = "getMessages"
    /\ \E i, j \in 1..Len(last.rows) :
          /\ JsonParse(last.rows[i].metadata) = [kind |-> "object", timestamp |-> 2]
          /\ last.rows[i].metadata = "{\"timestamp\":2}"
          /\ JsonParse(last.rows[j].metadata) = [kind |-> "null", timestamp |-> 0]

\* C27: when syncSession fails part-way through a file (a statement of an append
\* throws after some messages of the delta were stored), the failing step changes
\* no stored record, of this or of any other session, and does not advance the
\* cursor; the messages appended before stay, and a later syncSession on the same
\* file appends exactly the remaining ones: the store holds every transcript message
\* at most once, at its position, and after a completed call all the call parsed.
C27_FailureIsolation ==
    /\ [][(pc["p1"].at # "idle" /\ pc'["p1"].at = "idle" /\ last'.threw) =>
              /\ db' = db
              /\ lastSync' = lastSync]_vars
    /\ [](\A f \in Files :
             /\ HoldsPrefix(db, SessionOf(f), ParseSessionFile(files[f]).messages)
             /\ (Synced(f) /\ ~last.threw /\ pc["p1"].at = "idle") =>
                    /\ last.existingCount + last.synced = last.total
                    /\ MessageCount(db, SessionOf(f)) = last.total
                    /\ LastInfo(lastSync["p1"], SessionOf(f)).messageCount = last.total)

\* C27 witness: a call failed after it had stored the first of two new messages
\* (the cursor stayed at 0), and a later call on the same file has appended the
\* second one only.
C27_Witness ==
    /\ Synced("f1") /\ ~last.threw /\ pc["p1"].at = "idle"
    /\ last.priorCount = 0
    /\ last.existingCount = 1
    /\ last.synced = 1
    /\ last.total = 2
    /\ MessageCount(db, "session:a") = 2

\* C28: when the transcript holds no session record, syncSession appends nothing,
\* records no truncation event, creates no session record and leaves the cursor as
\* it is, and reports zero appended and no compaction, whatever message records the
\* file holds.
C28_NoDescriptorNoEffect ==
    [][\A f \in Files :
          (SyncSession("p1", f) /\ ~ParseSessionFile(files[f]).session.present) =>
              /\ db' = db
              /\ lastSync' = lastSync
              /\ ~last'.threw
              /\ last'.synced = 0
              /\ ~last'.compaction]_vars

\* C28 witness: syncSession has returned zero for a transcript of two valid message
\* lines without session record; the store holds a message of another session only.
C28_Witness ==
    /\ last.op = "syncSession" /\ last.file = "f1" /\ ~last.threw
    /\ ~ParseSessionFile(files["f1"]).session.present
    /\ Len(ParseSessionFile(files["f1"]).messages) = 2
    /\ last.synced = 0
    /\ Len(db.messages) = 1
    /\ {r.id : r \in db.sessions} = {"session:b"}

RECURSIVE SumOf(_)
SumOf(fn) ==
    IF DOMAIN fn = {} THEN 0
    ELSE LET x == CHOOSE y \in DOMAIN fn : TRUE
         IN  fn[x] + SumOf([y \in DOMAIN fn \ {x} |-> fn[y]])

\* C29: the result of syncAll satisfies totalSynced = the sum of the appended counts
\* of the successful syncSession calls of the pass = the increase of the number of
\* stored messages during the pass, and sessionsUpdated = the number of sessions
\* that received at least one message in the pass.
C29_AggregateCounts ==
    [][last'.op = "syncAll" =>
          LET gain == [f \in DOMAIN files |->
                          MessageCount(db', SessionOf(f)) - MessageCount(db, SessionOf(f))]
              succeeded == {f \in DOMAIN files \ unreadable :
                               MessageCount(db', SessionOf(f)) =
                                   Len(ParseSessionFile(files[f]).messages)}
          IN  /\ last'.synced = SumOf([f \in succeeded |-> gain[f]])
              /\ last'.synced = Len(db'.messages) - Len(db.messages)
              /\ last'.sessionsUpdated =
                     Cardinality({s \in SessionIds :
                                     MessageCount(db', s) > MessageCount(db, s)})]_vars

\* C29, amended: totalSynced is the sum of the appended counts of the successful
\* syncSession calls of the pass and sessionsUpdated the number of successful calls
\* that appended at least one message; what a failing call appended before it
\* failed is stored and counted in neither, so totalSynced is the increase of the
\* number of stored messages less the messages of the failing calls, and the
\* increase itself when no call fails after an append.
C29_AggregateCountsOfSuccessfulCalls ==
    [][last'.op = "syncAll" =>
          LET gain == [f \in DOMAIN files |->
                          MessageCount(db', SessionOf(f)) - MessageCount(db, SessionOf(f))]
              succeeded == {f \in DOMAIN files \ unreadable :
                               MessageCount(db', SessionOf(f)) =
                                   Len(ParseSessionFile(files[f]).messages)}
              failed == DOMAIN files \ succeeded
              increase == Len(db'.messages) - Len(db.messages)
          IN  /\ last'.synced = SumOf([f \in succeeded |-> gain[f]])
              /\ last'.sessionsUpdated = Cardinality({f \in succeeded : gain[f] > 0})
              /\ last'.synced = increase - SumOf([f \in failed |-> gain[f]])
              /\ (\A f \in failed : gain[f] = 0) => last'.synced = increase]_vars

\* C29 witness: a pass in which the call on f1 failed after the first of its two
\* new messages and the call on f2 appended one has returned totalSynced = 1 and
\* sessionsUpdated = 1; two messages more are stored, in two sessions.
C29_Witness ==
    /\ last.op = "syncAll"
    /\ last.synced = 1 /\ last.sessionsUpdated = 1
    /\ MessageCount(db, "session:a") = 1
    /\ MessageCount(db, "session:b") = 1
    /\ Len(MessageLines("f1")) = 2
    /\ lastSync["p1"] = SetCursor(EmptyCursor, "session:b", 1)

\* C30: appendMessage and syncSession never create, change or delete a checkpoint;
\* no step changes or deletes a checkpoint or a truncation event once it is
\* recorded (a checkpoint keeps its message_count and last_message_id while the
\* session grows); createSnapshot and recordCompaction leave all message rows as
\* they are.
C30_CheckpointsImmutable ==
    [][/\ last'.op \in {"appendMessage", "syncSession", "syncAll"} =>
              db'.snapshots = db.snapshots
       /\ Len(db'.snapshots) >= Len(db.snapshots)
       /\ SubSeq(db'.snapshots, 1, Len(db.snapshots)) = db.snapshots
       /\ Len(db'.compactions) >= Len(db.compactions)
       /\ SubSeq(db'.compactions, 1, Len(db.compactions)) = db.compactions
       /\ last'.op \in {"createSnapshot", "recordCompaction"} =>
              db'.messages = db.messages]_vars

\* C30 witness: a checkpoint taken at an earlier message count and an event the
\* synchronizer recorded are still in the store after the session has grown.
C30_Witness ==
    /\ last.op = "appendMessage" /\ ~last.threw
    /\ \E i \in 1..Len(db.snapshots) :
          /\ db.snapshots[i].session_id = "session:a"
          /\ db.snapshots[i].message_count < MessageCount(db, "session:a")
          /\ db.snapshots[i].last_message_id < Len(db.messages)
    /\ \E i \in 1..Len(db.compactions) : db.compactions[i].summary_available = 1

\* C31: after a syncSession call that found a session record, the cursor of the
\* session is the parsed message count of that call, also when the count went down;
\* so a syncSession that directly follows one of the same unchanged transcript
\* records no event, and a step adds an event of the session only when it is a
\* syncSession call whose parsed count is more than 5 below the count the cursor
\* kept from the previous call, and then exactly one.
C31_OneEventPerDrop ==
    [][LET parsed == ParseSessionFile(files["f1"])
           sid == parsed.session.sessionKey
           n == Len(parsed.messages)
           events == CompactionsOf(db, sid)
       IN  /\ (SyncSession("p1", "f1") /\ parsed.session.present) =>
                  /\ ~last'.threw
                  /\ sid \in DOMAIN lastSync'["p1"]
                  /\ lastSync'["p1"][sid].messageCount = n
           /\ (SyncSession("p1", "f1") /\ Synced("f1")) =>
                  db'.compactions = db.compactions
           /\ Len(CompactionsOf(db', sid)) <= Len(events) + 1
           /\ Len(CompactionsOf(db', sid)) > Len(events) =>
                  /\ SyncSession("p1", "f1")
                  /\ n < LastInfo(lastSync["p1"], sid).messageCount - 5]_vars

\* C31 witness: a call recorded the drop of a transcript and lowered the cursor to
\* the parsed count; the call that followed on the unchanged transcript has found
\* the cursor at that count and recorded nothing: the store holds one event.
C31_Witness ==
    /\ Synced("f1") /\ ~last.threw
    /\ ~last.compaction
    /\ Len(db.compactions) = 1
    /\ last.priorCount = last.total
    /\ last.total = db.compactions[1].messages_after
    /\ last.total < db.compactions[1].messages_before - 5
    /\ LastInfo(lastSync["p1"], "session:a").messageCount = last.total

\* the events syncSession recorded (a direct call of the model passes
\* summaryAvailable = false)
SyncEvents == SelectSeq(db.compactions, LAMBDA e : e.summary_available # 0)

\* C32: every truncation event the synchronizer wrote has before > 5,
\* 0 <= after < before - 5 and summary-available set, and its before is a message
\* count an earlier syncSession of the same process observed for the session: the
\* count its cursor held when the event was written, which the store holds too.
C32_EventsWellFormed ==
    /\ [](\A i \in 1..Len(SyncEvents) :
             LET e == SyncEvents[i]
             IN  /\ e.messages_before > 5
                 /\ 0 <= e.messages_after
                 /\ e.messages_after < e.messages_before - 5
                 /\ e.summary_available = 1
                 /\ e.messages_before <= MessageCount(db, e.session_id))
    /\ [][Len(db'.compactions) > Len(db.compactions) =>
              LET e == db'.compactions[Len(db'.compactions)]
              IN  /\ e.session_id \in DOMAIN lastSync["p1"]
                  /\ e.messages_before = lastSync["p1"][e.session_id].messageCount
                  /\ e.messages_after = Len(ParseSessionFile(files["f1"]).messages)
                  /\ lastSync'["p1"][e.session_id].messageCount = e.messages_after]_vars

\* C32 witness: the synchronizer has just written the event of the smallest drop
\* it records, from a remembered count of 6 messages to an empty transcript.
C32_Witness ==
    /\ last.op = "syncSession" /\ last.compaction /\ ~last.threw
    /\ Len(SyncEvents) = 1
    /\ SyncEvents[1].session_id = "session:a"
    /\ SyncEvents[1].messages_before = 6
    /\ SyncEvents[1].messages_after = 0
    /\ SyncEvents[1].summary_available = 1
    /\ MessageCount(db, "session:a") = 6

\* C33: the store never lags the cursor. A syncSession that returns normally for
\* session s, with c messages of s stored before the call and n parsed, leaves
\* max(c, n) messages of s in the store, returns synced = max(0, n - c) and
\* total = n, and sets the cursor of s to n; so in every state between calls each
\* session holds at least as many stored messages as its cursor says.
C33_StoreNeverLagsCursor ==
    /\ [](\A p \in Procs : \A sid \in DOMAIN lastSync[p] :
             MessageCount(db, sid) >= lastSync[p][sid].messageCount)
    /\ [][\A f \in Files :
              LET parsed == ParseSessionFile(files[f])
                  sid == parsed.session.sessionKey
                  n == Len(parsed.messages)
                  c == MessageCount(db, sid)
              IN  (SyncSession("p1", f) /\ parsed.session.present /\ ~last'.threw) =>
                      /\ MessageCount(db', sid) = (IF c > n THEN c ELSE n)
                      /\ last'.synced = (IF n > c THEN n - c ELSE 0)
                      /\ last'.total = n
                      /\ last'.sessionId = sid
                      /\ sid \in DOMAIN lastSync'["p1"]
                      /\ lastSync'["p1"][sid].messageCount = n]_vars

\* C33 witness: a syncSession found more messages stored (2) than parsed (1): it
\* appended nothing, returned total 1 and left the cursor at 1 under a store of 2.
C33_Witness ==
    /\ last.op = "syncSession" /\ ~last.threw
    /\ last.sessionId = "session:a"
    /\ last.existingCount = 2 /\ last.total = 1 /\ last.synced = 0
    /\ MessageCount(db, "session:a") = 2
    /\ "session:a" \in DOMAIN lastSync["p1"]
    /\ lastSync["p1"]["session:a"].messageCount = 1

\* the orders in which the directory listing can give the transcripts
FileOrders ==
    {o \in [1..Cardinality(Files) -> Files] :
        \A i, j \in DOMAIN o : i # j => o[i] # o[j]}

\* Date.now() during a pass: the first file is processed at now, the later ones
\* tick later (0 when the whole pass falls into one clock value)
TimeOfCall(k, now, tick) == IF k = 1 THEN now ELSE now + tick

\* syncAll over the files in a given order
RECURSIVE SyncAllInOrder(_, _, _, _, _, _, _, _, _, _)
SyncAllInOrder(order, tick, unread, d, cursor, proc, k, totalSynced, sessionsUpdated, now) ==
    IF k > Len(order)
    THEN [db |-> d, cursor |-> cursor,
          ret |-> [NoCall EXCEPT !.op = "syncAll", !.proc = proc,
                      !.synced = totalSynced, !.sessionsUpdated = sessionsUpdated,
                      !.filesScanned = Len(order)]]
    ELSE LET r == TrySyncSession(unread, d, cursor, proc, order[k],
                                 TimeOfCall(k, now, tick))
         IN  IF r.ret.threw
             THEN SyncAllInOrder(order, tick, unread, d, cursor, proc, k + 1,
                                 totalSynced, sessionsUpdated, now)
             ELSE SyncAllInOrder(order, tick, unread, r.db, r.cursor, proc, k + 1,
                                 IF r.ret.synced > 0 THEN totalSynced + r.ret.synced
                                 ELSE totalSynced,
                                 IF r.ret.synced > 0 THEN sessionsUpdated + 1
                                 ELSE sessionsUpdated,
                                 now)

\* one pass of syncAll, the listing in any order; the step is atomic and runs at
\* one clock value, as SyncAll does
SyncAllAnyOrder(p) ==
    /\ pc[p].at = "idle"
    /\ \E order \in FileOrders :
           LET r == SyncAllInOrder(order, 0, unreadable, db, lastSync[p], p,
                                   1, 0, 0, clock)
           IN  /\ db' = r.db
               /\ lastSync' = [lastSync EXCEPT ![p] = r.cursor]
               /\ last' = r.ret
    /\ UNCHANGED <<files, written, truncations, pc, clock, unreadable, closed, timer>>

NextOrder ==
    \/ \E f \in Files : HostAppend(f)
    \/ Len(MessageLines("f1")) > CompactionSlack /\ HostTruncate("f1")
    \/ \E f \in Files : SyncSession("p1", f)
    \/ SyncAllAnyOrder("p1")
    \/ db.snapshots = <<>> /\ ApiSnapshot("session:b", "snap", "manual")
    \/ ApiEvents = <<>> /\ ApiCompaction("session:b")

\* one checkpoint and one event of session b are enough for the other session's
\* rows to exist
SpecOrder == InitImmutable /\ [][NextOrder]_vars

\* what the store holds of one session: records, rows of the four tables and the
\* index entries of its messages
StoredOf(d, sid) ==
    [session |-> SessionRows(d, sid),
     messages |-> MessagesOf(d, sid),
     fts |-> {x \in d.fts : \E i \in 1..Len(d.messages) :
                 d.messages[i].id = x.rowid /\ d.messages[i].session_id = sid},
     snapshots |-> SnapshotsOf(d, sid),
     compactions |-> CompactionsOf(d, sid)]

\* the cursor entry of a session, None without one
CursorOf(cursor, sid) == IF sid \in DOMAIN cursor THEN <<cursor[sid]>> ELSE <<>>

\* a syncSession on a transcript of session s leaves every other session, and the
\* checkpoints of s, as they were
SyncFrame ==
    \A f \in Files :
        SyncSession("p1", f) =>
            /\ \A sid \in SessionIds \ {SessionOf(f)} :
                   /\ StoredOf(db', sid) = StoredOf(db, sid)
                   /\ MessageCount(db', sid) = MessageCount(db, sid)
                   /\ \A p \in Procs :
                          CursorOf(lastSync'[p], sid) = CursorOf(lastSync[p], sid)
            /\ SnapshotsOf(db', SessionOf(f)) = SnapshotsOf(db, SessionOf(f))
            /\ lastSync'["p2"] = lastSync["p2"]

\* the store and the cursor after a pass of syncAll over the files in some order,
\* the clock advancing by tick between the files
AfterPass(order, tick) ==
    SyncAllInOrder(order, tick, unreadable, db, lastSync["p1"], "p1", 1, 0, 0, clock)

\* a session's stored content without the row ids and the times of insertion
ContentRows(rows) ==
    [i \in 1..Len(rows) |->
        [message_index |-> rows[i].message_index, role |-> rows[i].role,
         content |-> rows[i].content, metadata |-> rows[i].metadata]]

EventRows(rows) ==
    [i \in 1..Len(rows) |->
        [messages_before |-> rows[i].messages_before,
         messages_after |-> rows[i].messages_after,
         summary_available |-> rows[i].summary_available]]

SessionContent(d, sid) ==
    [exists |-> SessionExists(d, sid),
     total_messages |-> {r.total_messages : r \in SessionRows(d, sid)},
     messages |-> ContentRows(MessagesOf(d, sid)),
     snapshots |-> SnapshotsOf(d, sid),
     compactions |-> EventRows(CompactionsOf(d, sid))]

====
